---- MODULE Spec2Model ----
(***************************************************************************)
(* Model of backend/services/websocket_manager.py (class ConnectionManager) *)
(* under asyncio's cooperative scheduling.                                  *)
(*                                                                          *)
(* Every coroutine call is a task with a program counter named after the    *)
(* source line it is at.  `running` is the task that currently holds the    *)
(* event loop: a task keeps it from one await of transport I/O to the next, *)
(* and only when it is released (running = 0) may another task be resumed   *)
(* or started.  The states with running = 0 are therefore exactly the       *)
(* states that another coroutine can observe.                               *)
(***************************************************************************)
EXTENDS Naturals, Sequences, FiniteSets

\* ------------------------------------------------------------------ bounds
NumClients == 2
NumCameras == 1
NumEndpoints == 1
NumPublishers == 1
NumSources == 2
MaxEvents == 2
MaxErrorCount == 22
MaxUpdates == 2
MaxTime == 20
MaxJobs == 2
MaxDetected == 3
MaxTasks == 2
MaxClock == 3
\* the store keeps the last 1000 events (video_analysis.py lines 191-192); the
\* slice is the same for every capacity, and a small one lets the store fill
StoreCapacity == 2
MaxAddCalls == 2
MaxReceived == 3
MaxLoopErrors == 2

ClientIds == <<"A", "B", "C", "D">>
CameraIds == <<"camFront", "camBack", "camSide">>

Clients == {ClientIds[i] : i \in 1..NumClients}
Cameras == {CameraIds[i] : i \in 1..NumCameras}
\* the sources video_processor.py loads (lines 350-378)
SourceIds == <<"cam1", "cam2", "cam3">>
Sources == {SourceIds[i] : i \in 1..NumSources}
\* Coroutines that call into the ConnectionManager at the same time.  An
\* endpoint task is a websocket_endpoint coroutine of main.py: it calls
\* connect, subscribe_to_camera, unsubscribe_from_camera and disconnect.  A publisher task is a coroutine of the pipeline (EventHandler,
\* the heartbeat): it calls broadcast, send_camera_update and
\* send_event_notification.
Endpoints == 1..NumEndpoints
Publishers == (NumEndpoints + 1)..(NumEndpoints + NumPublishers)
Tasks == Endpoints \cup Publishers

\* severities of the events sent: one that line 203 broadcasts and one that it
\* does not
Severities == {"low", "high"}

\* the exclude_clients arguments of broadcast: none, or one client
Excludes == {{}} \cup {{c} : c \in Clients}

VARIABLES
    active_connections,    \* dict client_id -> WebSocket, as its entry table
    client_subscriptions,  \* dict client_id -> set of camera ids
    camera_subscriptions,  \* dict camera_id -> set of client ids
    broken,                \* per client: it has no registered transport that is open
    first_received,        \* per client: type of the first message its registered transport got
    task,                  \* per task: the coroutine call it runs (program counter, locals)
    running,               \* task holding the event loop, 0 when it is free
    overlapped             \* per publisher task: another coroutine ran while its call was in progress

managerVars == <<active_connections, client_subscriptions, camera_subscriptions,
                 broken, first_received, task, running, overlapped>>

\* The application of main.py: its WebSocketManager instances and what is
\* wired to which.
VARIABLES
    lifespan,              \* main.py lifespan: "created", "serving"
    instances,             \* the WebSocketManager objects that exist
    event_handler,         \* websocket_manager.py global event_handler: "None" or the instance it wraps
    is_running,            \* per instance: WebSocketManager.is_running
    connections,           \* per instance: client ids in its connection_manager.active_connections
    subscribers,           \* per instance and source: its connection_manager.camera_subscriptions
    event_notifications,   \* per client: event_notification messages it received
    heartbeats,            \* per client: heartbeat messages it received
    events_published       \* per source: events the pipeline handed to the event handler

appVars == <<lifespan, instances, event_handler, is_running, connections, subscribers,
             event_notifications, heartbeats, events_published>>

\* One CameraStream of video_processor.py, the coroutines that call it, and
\* the frame queue of its VideoProcessor.
VARIABLES
    status,                \* CameraStream.status
    is_active,             \* CameraStream.is_active
    cap,                   \* CameraStream.cap: "None" or "open"
    error_count,           \* CameraStream.error_count
    in_cameras,            \* the stream is in VideoProcessor.cameras
    caller,                \* per calling coroutine: where it is in connect / disconnect
    notification,          \* the status the last step handed to the event handler, "none" if it handed none
    error_updates,         \* status updates reporting "error" handed over since the stream entered error
    frame_queue,           \* VideoProcessor.frame_queue.qsize()
    edges,                 \* the changes of CameraStream.status made by the last step
    failed_run,            \* length of the current run of failed reads (kept for the claims)
    loop                   \* _camera_processing_loop: its place and the exception raised in its body

cameraVars == <<status, is_active, cap, error_count, in_cameras, caller, notification, edges, failed_run,
                error_updates, frame_queue, loop>>

\* the analysis throttle of _camera_processing_loop (video_processor.py 443-458)
VARIABLES
    now,                   \* time.time(), in seconds
    last_processed_time,   \* CameraStream.last_processed_time
    wake,                  \* the time at which the loop's current sleep ends
    last_attempt           \* the time of the loop's latest call of frame_queue.put

throttleVars == <<now, last_processed_time, wake, last_attempt>>

\* the consumers of VideoProcessor.frame_queue (video_processor.py 477-548)
VARIABLES
    queued,                \* the jobs in frame_queue, oldest first
    submitted,             \* the jobs accepted into frame_queue so far
    analysed,              \* the jobs _ai_analysis_loop handed to the call of line 511, in order
    discarded,             \* the jobs _frame_processing_loop took
    frame_loop,            \* _frame_processing_loop: its place
    ai_loop                \* _ai_analysis_loop: its place and the exception raised in its body

queueVars == <<queued, submitted, analysed, discarded, frame_loop, ai_loop>>

\* VideoAnalysisService (video_analysis.py)
VARIABLES
    detected_events,       \* VideoAnalysisService.detected_events
    monitoring_tasks,      \* VideoAnalysisService.monitoring_tasks
    check,                 \* _check_monitoring_tasks: the pass in progress, suspended in a broadcast
    alerts,                \* per task id and event id: the monitoring_alerts handed to broadcast
    clock,                 \* datetime.now()
    events_detected,       \* the number of events processed so far; the next event's id
    tasks_added,           \* the number of tasks added so far; the next task's id
    removed_at,            \* per task id: events_detected when remove returned True for it
    removed,               \* the call of remove_monitoring_task made by the last step and its value
    period                 \* the call of get_events_for_period made by the last step and its value

analysisVars == <<detected_events, monitoring_tasks, check, alerts, clock, events_detected,
                  tasks_added, removed_at, removed, period>>

\* one VideoProcessor (video_processor.py lines 276-419) with the coroutines
\* that call it and the loops it creates
VARIABLES
    processor_is_running,  \* VideoProcessor.is_running
    cameras,               \* VideoProcessor.cameras: camera id -> CameraStream object
    streams,               \* per CameraStream object: its id, status and is_active
    camera_loop,           \* per CameraStream object: its _camera_processing_loop task
    worker_loop,           \* the three background loops of _start_background_tasks
    add_call,              \* per call of add_camera: where it is and what it returned
    stop_call              \* the call of stop: where it is

processorVars == <<processor_is_running, cameras, streams, camera_loop, worker_loop,
                   add_call, stop_call>>

\* the receive loop of websocket_endpoint (main.py lines 76-97)
VARIABLES
    received,              \* the number of texts the endpoints have received
    inbound                \* the client and the text of the latest receive

endpointVars == <<received, inbound>>

vars == <<managerVars, appVars, cameraVars, throttleVars, queueVars, analysisVars,
          processorVars, endpointVars>>

\* ------------------------------------------------- CPython dict of str keys
\* active_connections is iterated with awaits inside the loop, so the model
\* keeps its keys in insertion order.  Assigning to a key that is present
\* keeps the key's place.
Dummy == "<dummy>"

Keys(entries) == {entries[i] : i \in 1..Len(entries)}

DictSetItem(entries, k) ==
    IF k \in Keys(entries) THEN entries ELSE Append(entries, k)

DictDelItem(entries, k) == SelectSeq(entries, LAMBDA x : x # k)

\* iterator state: a dict iterator uses used/pos/len/changed, a set iterator
\* used/seen/orig/dead
NoIter ==
    [kind |-> "none", used |-> 0, pos |-> 1, len |-> 0, changed |-> FALSE,
     seen |-> {}, orig |-> {}, dead |-> FALSE]

DictIterNew(entries) ==
    [NoIter EXCEPT !.kind = "dict", !.used = Len(entries), !.len = Len(entries)]

\* next() of a dict iterator.  It raises RuntimeError when the dict's size
\* differs from its size at the start of the loop.  While no key was inserted
\* or deleted it produces the keys in insertion order.  After keys were
\* inserted and deleted with the size the same again, what it does depends on
\* the layout of the dict's entry table (it may raise "dictionary keys changed
\* during iteration", skip or repeat a key, or stop), but it produces at most
\* `used` keys in all: every such outcome is possible here.
DictIterNext(entries, it) ==
    IF it.used # Len(entries)
    THEN {[kind |-> "RuntimeError", key |-> Dummy, it |-> it]}
    ELSE IF ~it.changed
    THEN IF it.pos > Len(entries)
         THEN {[kind |-> "stop", key |-> Dummy, it |-> it]}
         ELSE {[kind |-> "item", key |-> entries[it.pos],
                it |-> [it EXCEPT !.pos = it.pos + 1, !.len = it.len - 1]]}
    ELSE {[kind |-> "RuntimeError", key |-> Dummy, it |-> it],
          [kind |-> "stop", key |-> Dummy, it |-> it]}
         \cup (IF it.len = 0 THEN {}
               ELSE {[kind |-> "item", key |-> k, it |-> [it EXCEPT !.len = it.len - 1]]
                        : k \in Keys(entries)})

\* ------------------------------------------------------ CPython set of str
\* The order of a set of strings follows their (per-process randomised)
\* hashes: next() produces any member not produced yet.  It raises when the
\* set's size differs from the size at the start of the iteration; a set
\* object that was deleted from camera_subscriptions is empty (`dead`).  A
\* member added during the iteration may lie before or after the iterator's
\* position, so the iteration may also stop without producing it.
SetIterNew(members) ==
    [NoIter EXCEPT !.kind = "set", !.used = Cardinality(members), !.orig = members]

SetIterNext(members, it) ==
    IF it.dead \/ it.used # Cardinality(members)
    THEN {[kind |-> "RuntimeError", key |-> Dummy, it |-> it]}
    ELSE LET rest == members \ it.seen IN
         {[kind |-> "item", key |-> k, it |-> [it EXCEPT !.seen = it.seen \cup {k}]]
             : k \in rest}
         \cup (IF rest \subseteq (members \ it.orig)
               THEN {[kind |-> "stop", key |-> Dummy, it |-> it]} ELSE {})

\* ------------------------------------------------------------- task state
NoClient == "<none>"
NoCamera == "<none>"
Zero == [c \in Clients |-> 0]

IdleTask ==
    [op |-> "idle", pc |-> "idle", client |-> NoClient, camera |-> NoCamera,
     severity |-> "low", exclude |-> {}, sent_ok |-> TRUE, it |-> NoIter,
     disconnected_clients |-> <<>>, stack |-> <<>>,
     got |-> Zero, prio |-> Zero, failed |-> {}, subs0 |-> {}, conns0 |-> {},
     pruned |-> {},
     err |-> "none"]

\* a dict that is never iterated over with awaits inside: a function on its keys
EmptyDict == [k \in {} |-> {}]

SetItem(d, k, v) == [x \in DOMAIN d \cup {k} |-> IF x = k THEN v ELSE d[x]]

DelItems(d, ks) == [x \in DOMAIN d \ ks |-> d[x]]

InProgress(u) == task[u].pc \notin {"idle", "done"}

Subscribers(s) ==
    IF s \in DOMAIN camera_subscriptions THEN camera_subscriptions[s] ELSE {}

Subscriptions(c) ==
    IF c \in DOMAIN client_subscriptions THEN client_subscriptions[c] ELSE {}

\* main.py lines 21-23 create the application's WebSocketManager when the
\* module is imported; websocket_manager.py lines 440-441 leave the module's
\* own globals None
MainInstance == "main.websocket_manager"
ServicesInstance == "services.websocket_manager.websocket_manager"
Instances == {MainInstance, ServicesInstance}

InitApp ==
    /\ lifespan = "created"
    /\ instances = {MainInstance}
    /\ event_handler = "None"
    /\ is_running = [m \in Instances |-> FALSE]
    /\ connections = [m \in Instances |-> {}]
    /\ subscribers = [m \in Instances |-> [s \in Sources |-> {}]]
    /\ event_notifications = [c \in Clients |-> 0]
    /\ heartbeats = [c \in Clients |-> 0]
    /\ events_published = [s \in Sources |-> 0]

\* video_processor.py lines 27-48 and 284
Callers == {"add_camera", "update_camera", "health_check"}

InitCamera ==
    /\ status = "disconnected"
    /\ is_active = FALSE
    /\ cap = "None"
    /\ error_count = 0
    /\ in_cameras = FALSE
    /\ caller = [k \in Callers |-> "idle"]
    /\ notification = "none"
    /\ error_updates = 0
    /\ frame_queue = 0
    /\ edges = {}
    /\ failed_run = 0
    /\ loop = [pc |-> "ended", frame |-> FALSE, raised |-> "none"]

NoTime == 0 - 1
process_interval == 5

\* time.time() reads the epoch clock, far beyond process_interval, while
\* last_processed_time starts at 0 (line 37): the clock starts at the least
\* reading that makes the first check of lines 444-447 pass as it does
InitThrottle ==
    /\ now = process_interval
    /\ last_processed_time = 0
    /\ wake = process_interval
    /\ last_attempt = NoTime

\* VideoProcessor.__init__ (line 284) and _start_background_tasks (330-340)
InitQueue ==
    /\ queued = <<>>
    /\ submitted = {}
    /\ analysed = <<>>
    /\ discarded = {}
    /\ frame_loop = "get_484"
    /\ ai_loop = [pc |-> "loop_507", raised |-> "none", failed |-> FALSE]

EventTypes == {"motion_detected", "person_detected"}
TaskIds == 1..MaxTasks
EventIds == 1..MaxDetected
TaskCameraIds == {{SourceIds[1]}, {SourceIds[1], SourceIds[2]}}
TaskEventTypes == {{"motion_detected"}, {"motion_detected", "person_detected"}}
PeriodCameraIds == {{}, {SourceIds[1]}}
Never == 0 - 1

NoCheck == [pc |-> "idle", event |-> [id |-> 0], i |-> 0, task_id |-> 0, at_start |-> {}]
NoRemove == [task_id |-> 0, value |-> "none"]
NoPeriod == [camera_ids |-> {}, start_time |-> 0, end_time |-> 0, value |-> <<>>]

\* VideoAnalysisService.__init__, lines 65-69
InitAnalysis ==
    /\ detected_events = <<>>
    /\ monitoring_tasks = <<>>
    /\ check = NoCheck
    /\ alerts = [t \in TaskIds, e \in EventIds |-> 0]
    /\ clock = 1
    /\ events_detected = 0
    /\ tasks_added = 0
    /\ removed_at = [t \in TaskIds |-> Never]
    /\ removed = NoRemove
    /\ period = NoPeriod

\* VideoProcessor.__init__, lines 279-289.  The CameraStream objects: one per
\* configuration of _load_cameras (lines 350-378), one per call of add_camera
StreamObjects == 1..(NumSources + MaxAddCalls)
AddCalls == 1..MaxAddCalls
Workers == {"_frame_processing_loop", "_ai_analysis_loop", "_status_monitoring_loop"}

InitProcessor ==
    /\ processor_is_running = FALSE
    /\ cameras = [id \in {} |-> 0]
    /\ streams = [o \in StreamObjects |-> [id |-> "none", status |-> "none", is_active |-> FALSE]]
    /\ camera_loop = [o \in StreamObjects |-> [pc |-> "none", errors |-> 0]]
    /\ worker_loop = [w \in Workers |-> "none"]
    /\ add_call = [k \in AddCalls |-> [pc |-> "idle", id |-> "none", value |-> "none"]]
    /\ stop_call = [pc |-> "idle", tasks |-> {}]


\* no endpoint has received anything
InitEndpoint ==
    /\ received = 0
    /\ inbound = [client |-> NoClient, data |-> ""]

Init ==
    /\ active_connections = <<>>
    /\ client_subscriptions = EmptyDict
    /\ camera_subscriptions = EmptyDict
    /\ broken = [c \in Clients |-> TRUE]
    /\ first_received = [c \in Clients |-> "none"]
    /\ task = [t \in Tasks |-> IdleTask]
    /\ running = 0
    /\ overlapped = [t \in Tasks |-> FALSE]
    /\ InitApp
    /\ InitCamera
    /\ InitThrottle
    /\ InitQueue
    /\ InitAnalysis
    /\ InitProcessor
    /\ InitEndpoint

\* --------------------------------------------------------------- scheduling
\* the message a send of this task carries, by the function it is in
Message(r) ==
    CASE r.op = "connect" -> "connection_established"
      [] r.op = "subscribe_to_camera" -> "subscription_confirmed"
      [] r.op = "unsubscribe_from_camera" -> "subscription_removed"
      [] r.op = "send_camera_update" -> "camera_update"
      [] r.op = "send_event_notification" ->
             IF r.pc = "bc_89" THEN "priority_event" ELSE "event_notification"
      [] r.op = "broadcast" -> "broadcast"
      [] OTHER -> "message"

\* websocket.send_text(json.dumps(message)) to client k: the frame is handed
\* to k's registered transport at the call.  The send raises when the peer has
\* gone away, which the program first learns here, and every later send to a
\* transport that raised or was closed raises too.
SendOutcomes(k) == IF broken[k] THEN {FALSE} ELSE BOOLEAN

Sent(r, k, ok) ==
    IF ok
    THEN IF Message(r) = "priority_event"
         THEN [r EXCEPT !.prio[k] = r.prio[k] + 1]
         ELSE [r EXCEPT !.got[k] = r.got[k] + 1]
    ELSE [r EXCEPT !.failed = r.failed \cup {k}]

Received(r, k, ok) ==
    IF ok /\ first_received[k] = "none"
    THEN [first_received EXCEPT ![k] = Message(r)]
    ELSE first_received

Transport(k, ok) == [broken EXCEPT ![k] = ~ok]

\* return from the current function: to the caller's label, or out of the call
Ret(r) ==
    IF r.stack = <<>> THEN [r EXCEPT !.pc = "done"]
    ELSE [r EXCEPT !.pc = Head(r.stack), !.stack = Tail(r.stack)]

\* an exception no handler of this module catches ends the call
Raise(r, e) == [r EXCEPT !.pc = "done", !.err = e, !.stack = <<>>]

\* a set object deleted from camera_subscriptions stays referenced by the
\* iterators that are walking it
MarkDead(r, pruned) ==
    IF r.camera \in pruned /\ r.it.kind = "set" THEN [r EXCEPT !.it.dead = TRUE] ELSE r

\* a key was inserted into or deleted from active_connections: the dict
\* iterators that are walking it are affected
MarkChanged(r, keysChanged) ==
    IF keysChanged /\ r.it.kind = "dict" THEN [r EXCEPT !.it.changed = TRUE] ELSE r

\* task t takes a step to state r; it releases the event loop when the step
\* ends in an await of transport I/O (suspend) or ends the call
StepKeys(t, r, pruned, suspend, keysChanged) ==
    /\ task' = [u \in Tasks |->
           MarkChanged(MarkDead(IF u = t THEN r ELSE task[u], pruned), keysChanged)]
    /\ running' = IF suspend \/ r.pc = "done" THEN 0 ELSE t
    /\ overlapped' = [u \in Tasks |->
           IF u = t
           THEN IF task[t].pc = "idle"
                THEN t \in Publishers /\ \E v \in Tasks \ {t} : InProgress(v)
                ELSE overlapped[t]
           ELSE overlapped[u] \/ (u \in Publishers /\ InProgress(u))]
    /\ UNCHANGED <<appVars, cameraVars, throttleVars, queueVars, analysisVars, processorVars, endpointVars>>

Step(t, r, pruned, suspend) == StepKeys(t, r, pruned, suspend, FALSE)

\* task t is at label pc and may run; a call that has ended is cleared first
At(t, pc) ==
    /\ task[t].pc = pc
    /\ running \in {0, t}
    /\ \A u \in Tasks : task[u].pc # "done"

Call(t, op, pc) == [IdleTask EXCEPT !.op = op, !.pc = pc]

\* ------------------------------------------------------------------ connect
connect(t, c) ==
    /\ At(t, "idle") /\ running = 0
    /\ Step(t, [Call(t, "connect", "connect_28") EXCEPT !.client = c], {}, TRUE)
    /\ UNCHANGED <<active_connections, client_subscriptions, camera_subscriptions,
                   broken, first_received>>

\* connect with a suspension point between the registration of line 29 and
\* the welcome of line 37: the variant C10 must tell from the code
connect_29_await(t) ==
    /\ At(t, "connect_28")
    /\ LET c == task[t].client IN
       /\ active_connections' = DictSetItem(active_connections, c)
       /\ client_subscriptions' = SetItem(client_subscriptions, c, {})
       /\ broken' = [broken EXCEPT ![c] = FALSE]
       /\ first_received' = [first_received EXCEPT ![c] = "none"]
       /\ StepKeys(t, [task[t] EXCEPT !.pc = "stc_71"], {}, TRUE,
                   c \notin Keys(active_connections))
    /\ UNCHANGED camera_subscriptions

\* lines 29-30, after websocket.accept() returned: the accepted transport is
\* registered under client_id
connect_29(t) ==
    /\ At(t, "connect_28")
    /\ LET c == task[t].client IN
       /\ active_connections' = DictSetItem(active_connections, c)
       /\ client_subscriptions' = SetItem(client_subscriptions, c, {})
       /\ broken' = [broken EXCEPT ![c] = FALSE]
       /\ first_received' = [first_received EXCEPT ![c] = "none"]
       /\ StepKeys(t, [task[t] EXCEPT !.pc = "stc_71"], {}, FALSE,
                   c \notin Keys(active_connections))
    /\ UNCHANGED camera_subscriptions

\* ----------------------------------------------------------- send_to_client
\* lines 71-73: the membership test and the send
send_to_client_71(t) ==
    /\ At(t, "stc_71")
    /\ LET r == task[t]
           c == r.client IN
       IF c \in Keys(active_connections)
       THEN \E ok \in SendOutcomes(c) :
               /\ first_received' = Received(r, c, ok)
               /\ broken' = Transport(c, ok)
               /\ Step(t, [Sent(r, c, ok) EXCEPT !.pc = "stc_73", !.sent_ok = ok],
                       {}, TRUE)
       ELSE /\ Step(t, Ret(r), {}, FALSE)
            /\ UNCHANGED <<first_received, broken>>
    /\ UNCHANGED <<active_connections, client_subscriptions, camera_subscriptions>>

\* lines 74-78, resumed from the send: both handlers call disconnect
send_to_client_74(t) ==
    /\ At(t, "stc_73")
    /\ LET r == task[t] IN
       Step(t, IF r.sent_ok THEN Ret(r) ELSE [r EXCEPT !.pc = "disc_48"], {}, FALSE)
    /\ UNCHANGED <<active_connections, client_subscriptions, camera_subscriptions,
                   broken, first_received>>

\* --------------------------------------------------------------- disconnect
disconnect(t, c) ==
    /\ At(t, "idle") /\ running = 0
    /\ Step(t, [Call(t, "disconnect", "disc_48") EXCEPT !.client = c], {}, FALSE)
    /\ UNCHANGED <<active_connections, client_subscriptions, camera_subscriptions,
                   broken, first_received>>

\* lines 48-60: subscription clean-up, then the await of close()
disconnect_48(t) ==
    /\ At(t, "disc_48")
    /\ LET r == task[t]
           c == r.client
           mine == Subscriptions(c) \cap DOMAIN camera_subscriptions
           pruned == {s \in mine : camera_subscriptions[s] \ {c} = {}} IN
       IF c \in Keys(active_connections)
       THEN /\ camera_subscriptions' =
                   [s \in DOMAIN camera_subscriptions \ pruned |->
                       IF s \in mine THEN camera_subscriptions[s] \ {c}
                       ELSE camera_subscriptions[s]]
            /\ client_subscriptions' = DelItems(client_subscriptions, {c})
            /\ broken' = [broken EXCEPT ![c] = TRUE]
            /\ Step(t, [r EXCEPT !.pc = "disc_60", !.pruned = r.pruned \cup pruned],
                    pruned, TRUE)
       ELSE /\ Step(t, Ret(r), {}, FALSE)
            /\ UNCHANGED <<client_subscriptions, camera_subscriptions, broken>>
    /\ UNCHANGED <<active_connections, first_received>>

\* line 63, resumed from close(): del self.active_connections[client_id]
disconnect_63(t) ==
    /\ At(t, "disc_60")
    /\ LET r == task[t]
           c == r.client IN
       IF c \in Keys(active_connections)
       THEN /\ active_connections' = DictDelItem(active_connections, c)
            /\ broken' = [broken EXCEPT ![c] = TRUE]
            /\ first_received' = [first_received EXCEPT ![c] = "none"]
            /\ StepKeys(t, Ret(r), {}, FALSE, TRUE)
       ELSE /\ Step(t, Raise(r, "KeyError"), {}, FALSE)
            /\ UNCHANGED <<active_connections, broken, first_received>>
    /\ UNCHANGED <<client_subscriptions, camera_subscriptions>>

\* ------------------------------------------------------ subscribe_to_camera
subscribe_to_camera(t, c, s) ==
    /\ At(t, "idle") /\ running = 0
    /\ Step(t, [Call(t, "subscribe_to_camera", "sub_105")
                   EXCEPT !.client = c, !.camera = s],
            {}, FALSE)
    /\ UNCHANGED <<active_connections, client_subscriptions, camera_subscriptions,
                   broken, first_received>>

\* subscribe_to_camera with a suspension point between the update of
\* client_subscriptions and the update of camera_subscriptions: the variant C3
\* must tell from the code
subscribe_to_camera_105_await(t) ==
    /\ At(t, "sub_105")
    /\ LET r == task[t] IN
       /\ client_subscriptions' =
              SetItem(client_subscriptions, r.client, Subscriptions(r.client) \cup {r.camera})
       /\ Step(t, [r EXCEPT !.pc = "sub_110"], {}, TRUE)
    /\ UNCHANGED <<active_connections, camera_subscriptions, broken, first_received>>

\* lines 105-108
subscribe_to_camera_105(t) ==
    /\ At(t, "sub_105")
    /\ LET r == task[t] IN
       /\ client_subscriptions' =
              SetItem(client_subscriptions, r.client, Subscriptions(r.client) \cup {r.camera})
       /\ Step(t, [r EXCEPT !.pc = "sub_110"], {}, FALSE)
    /\ UNCHANGED <<active_connections, camera_subscriptions, broken, first_received>>

\* subscribe_to_camera that hands its acknowledgment to broadcast instead of
\* send_to_client: the variant C11 must tell from the code
subscribe_to_camera_110_broadcast(t) ==
    /\ At(t, "sub_110")
    /\ LET r == task[t] IN
       /\ camera_subscriptions' =
              SetItem(camera_subscriptions, r.camera, Subscribers(r.camera) \cup {r.client})
       /\ Step(t, [r EXCEPT !.pc = "bc_89", !.it = DictIterNew(active_connections)],
               {}, FALSE)
    /\ UNCHANGED <<active_connections, client_subscriptions, broken, first_received>>

\* lines 110-112, then the call of send_to_client
subscribe_to_camera_110(t) ==
    /\ At(t, "sub_110")
    /\ LET r == task[t] IN
       /\ camera_subscriptions' =
              SetItem(camera_subscriptions, r.camera, Subscribers(r.camera) \cup {r.client})
       /\ Step(t, [r EXCEPT !.pc = "stc_71"], {}, FALSE)
    /\ UNCHANGED <<active_connections, client_subscriptions, broken, first_received>>

\* -------------------------------------------------- unsubscribe_from_camera
unsubscribe_from_camera(t, c, s) ==
    /\ At(t, "idle") /\ running = 0
    /\ Step(t, [Call(t, "unsubscribe_from_camera", "unsub_127")
                   EXCEPT !.client = c, !.camera = s],
            {}, FALSE)
    /\ UNCHANGED <<active_connections, client_subscriptions, camera_subscriptions,
                   broken, first_received>>

\* lines 127-128
unsubscribe_from_camera_127(t) ==
    /\ At(t, "unsub_127")
    /\ LET r == task[t] IN
       /\ client_subscriptions' =
              IF r.client \in DOMAIN client_subscriptions
              THEN SetItem(client_subscriptions, r.client,
                           client_subscriptions[r.client] \ {r.camera})
              ELSE client_subscriptions
       /\ Step(t, [r EXCEPT !.pc = "unsub_130"], {}, FALSE)
    /\ UNCHANGED <<active_connections, camera_subscriptions, broken, first_received>>

\* unsubscribe_from_camera without the deletion of lines 132-133: the variant
\* C2 must tell from the code
unsubscribe_from_camera_130_keep(t) ==
    /\ At(t, "unsub_130")
    /\ LET r == task[t]
           s == r.camera IN
       /\ camera_subscriptions' =
              IF s \in DOMAIN camera_subscriptions
              THEN SetItem(camera_subscriptions, s, Subscribers(s) \ {r.client})
              ELSE camera_subscriptions
       /\ Step(t, [r EXCEPT !.pc = "stc_71"], {}, FALSE)
    /\ UNCHANGED <<active_connections, client_subscriptions, broken, first_received>>

\* lines 130-133, then the call of send_to_client
unsubscribe_from_camera_130(t) ==
    /\ At(t, "unsub_130")
    /\ LET r == task[t]
           s == r.camera
           left == Subscribers(s) \ {r.client} IN
       IF s \in DOMAIN camera_subscriptions
       THEN IF left = {}
            THEN /\ camera_subscriptions' = DelItems(camera_subscriptions, {s})
                 /\ Step(t, [r EXCEPT !.pc = "stc_71", !.pruned = {s}], {s}, FALSE)
            ELSE /\ camera_subscriptions' = SetItem(camera_subscriptions, s, left)
                 /\ Step(t, [r EXCEPT !.pc = "stc_71"], {}, FALSE)
       ELSE /\ Step(t, [r EXCEPT !.pc = "stc_71"], {}, FALSE)
            /\ UNCHANGED camera_subscriptions
    /\ UNCHANGED <<active_connections, client_subscriptions, broken, first_received>>

\* ---------------------------------------------------------------- broadcast
broadcast(t, exclude_clients) ==
    /\ At(t, "idle") /\ running = 0
    /\ Step(t, [Call(t, "broadcast", "bc_89")
                   EXCEPT !.exclude = exclude_clients,
                          !.conns0 = Keys(active_connections),
                          !.it = DictIterNew(active_connections)],
            {}, FALSE)
    /\ UNCHANGED <<active_connections, client_subscriptions, camera_subscriptions,
                   broken, first_received>>

\* lines 89-97: one turn of `for client_id, websocket in
\* self.active_connections.items()`, up to the await of the send; a failed
\* send only appends to the local list disconnected_clients
broadcast_89(t) ==
    /\ At(t, "bc_89")
    /\ LET r == task[t] IN
       \E n \in DictIterNext(active_connections, r.it) :
          CASE n.kind = "RuntimeError" ->
                   /\ Step(t, Raise(r, "RuntimeError"), {}, FALSE)
                   /\ UNCHANGED <<first_received, broken>>
            [] n.kind = "stop" ->
                   /\ Step(t, [r EXCEPT !.pc = "bc_100", !.it = NoIter], {}, FALSE)
                   /\ UNCHANGED <<first_received, broken>>
            [] n.kind = "item" /\ n.key \in r.exclude ->
                   /\ Step(t, [r EXCEPT !.it = n.it], {}, FALSE)
                   /\ UNCHANGED <<first_received, broken>>
            [] n.kind = "item" /\ n.key \notin r.exclude ->
                   \E ok \in SendOutcomes(n.key) :
                      /\ first_received' = Received(r, n.key, ok)
                      /\ broken' = Transport(n.key, ok)
                      /\ Step(t, [Sent(r, n.key, ok) EXCEPT
                                     !.it = n.it,
                                     !.disconnected_clients =
                                         IF ok THEN @ ELSE Append(@, n.key)],
                              {}, TRUE)
    /\ UNCHANGED <<active_connections, client_subscriptions, camera_subscriptions>>

\* lines 100-101: `for client_id in disconnected_clients: await
\* self.disconnect(client_id)`
broadcast_100(t) ==
    /\ At(t, "bc_100")
    /\ LET r == task[t] IN
       Step(t, IF r.disconnected_clients = <<>> THEN Ret(r)
               ELSE [r EXCEPT !.client = Head(r.disconnected_clients),
                              !.disconnected_clients = Tail(r.disconnected_clients),
                              !.stack = <<"bc_100">> \o r.stack,
                              !.pc = "disc_48"],
            {}, FALSE)
    /\ UNCHANGED <<active_connections, client_subscriptions, camera_subscriptions,
                   broken, first_received>>

\* ------------------------------------------------------- send_camera_update
send_camera_update(t, s) ==
    /\ At(t, "idle") /\ running = 0
    /\ Step(t, [Call(t, "send_camera_update", "cu_148")
                   EXCEPT !.camera = s, !.subs0 = Subscribers(s)],
            {}, FALSE)
    /\ UNCHANGED <<active_connections, client_subscriptions, camera_subscriptions,
                   broken, first_received>>

\* line 148, and the start of the loop of line 158
send_camera_update_148(t) ==
    /\ At(t, "cu_148")
    /\ LET r == task[t] IN
       Step(t, IF r.camera \in DOMAIN camera_subscriptions
               THEN [r EXCEPT !.pc = "cu_158",
                              !.it = SetIterNew(camera_subscriptions[r.camera])]
               ELSE Ret(r),
            {}, FALSE)
    /\ UNCHANGED <<active_connections, client_subscriptions, camera_subscriptions,
                   broken, first_received>>

\* lines 158-170: one turn of `for client_id in
\* self.camera_subscriptions[camera_id]`, up to the await of the send
send_camera_update_158(t) ==
    /\ At(t, "cu_158")
    /\ LET r == task[t] IN
       \E n \in SetIterNext(Subscribers(r.camera), r.it) :
          CASE n.kind = "RuntimeError" ->
                   /\ Step(t, Raise(r, "RuntimeError"), {}, FALSE)
                   /\ UNCHANGED <<first_received, broken>>
            [] n.kind = "stop" ->
                   /\ Step(t, [r EXCEPT !.pc = "cu_173", !.it = NoIter], {}, FALSE)
                   /\ UNCHANGED <<first_received, broken>>
            [] n.kind = "item" /\ n.key \notin Keys(active_connections) ->
                   /\ Step(t, [r EXCEPT !.it = n.it], {}, FALSE)
                   /\ UNCHANGED <<first_received, broken>>
            [] n.kind = "item" /\ n.key \in Keys(active_connections) ->
                   \E ok \in SendOutcomes(n.key) :
                      /\ first_received' = Received(r, n.key, ok)
                      /\ broken' = Transport(n.key, ok)
                      /\ Step(t, [Sent(r, n.key, ok) EXCEPT
                                     !.it = n.it,
                                     !.disconnected_clients =
                                         IF ok THEN @ ELSE Append(@, n.key)],
                              {}, TRUE)
    /\ UNCHANGED <<active_connections, client_subscriptions, camera_subscriptions>>

\* lines 173-174
send_camera_update_173(t) ==
    /\ At(t, "cu_173")
    /\ LET r == task[t] IN
       Step(t, IF r.disconnected_clients = <<>> THEN Ret(r)
               ELSE [r EXCEPT !.client = Head(r.disconnected_clients),
                              !.disconnected_clients = Tail(r.disconnected_clients),
                              !.stack = <<"cu_173">> \o r.stack,
                              !.pc = "disc_48"],
            {}, FALSE)
    /\ UNCHANGED <<active_connections, client_subscriptions, camera_subscriptions,
                   broken, first_received>>

\* -------------------------------------------------- send_event_notification
send_event_notification(t, s, sev) ==
    /\ At(t, "idle") /\ running = 0
    /\ Step(t, [Call(t, "send_event_notification", "ev_192")
                   EXCEPT !.camera = s, !.severity = sev],
            {}, FALSE)
    /\ UNCHANGED <<active_connections, client_subscriptions, camera_subscriptions,
                   broken, first_received>>

\* line 192, and the start of the loop of line 199
send_event_notification_192(t) ==
    /\ At(t, "ev_192")
    /\ LET r == task[t] IN
       Step(t, IF r.camera \in DOMAIN camera_subscriptions
               THEN [r EXCEPT !.pc = "ev_199",
                              !.it = SetIterNew(camera_subscriptions[r.camera])]
               ELSE [r EXCEPT !.pc = "ev_203"],
            {}, FALSE)
    /\ UNCHANGED <<active_connections, client_subscriptions, camera_subscriptions,
                   broken, first_received>>

\* lines 199-200: one turn of `for client_id in
\* self.camera_subscriptions[camera_id]`, up to the call of send_to_client
send_event_notification_199(t) ==
    /\ At(t, "ev_199")
    /\ LET r == task[t] IN
       \E n \in SetIterNext(Subscribers(r.camera), r.it) :
          Step(t, CASE n.kind = "RuntimeError" -> Raise(r, "RuntimeError")
                    [] n.kind = "stop" -> [r EXCEPT !.pc = "ev_203", !.it = NoIter]
                    [] n.kind = "item" ->
                           [r EXCEPT !.it = n.it, !.client = n.key,
                                     !.stack = <<"ev_199">> \o r.stack,
                                     !.pc = "stc_71"],
               {}, FALSE)
    /\ UNCHANGED <<active_connections, client_subscriptions, camera_subscriptions,
                   broken, first_received>>

\* lines 203-210: the broadcast of a high or critical event
send_event_notification_203(t) ==
    /\ At(t, "ev_203")
    /\ LET r == task[t] IN
       Step(t, IF r.severity \in {"high", "critical"}
               THEN [r EXCEPT !.pc = "bc_89", !.exclude = {},
                              !.disconnected_clients = <<>>,
                              !.it = DictIterNew(active_connections)]
               ELSE Ret(r),
            {}, FALSE)
    /\ UNCHANGED <<active_connections, client_subscriptions, camera_subscriptions,
                   broken, first_received>>

\* the call has ended and its task is free for the next call
Finish(t) ==
    /\ task[t].pc = "done" /\ running = 0
    /\ task' = [task EXCEPT ![t] = IdleTask]
    /\ overlapped' = [overlapped EXCEPT ![t] = FALSE]
    /\ UNCHANGED <<active_connections, client_subscriptions, camera_subscriptions,
                   broken, first_received, running>>
    /\ UNCHANGED <<appVars, cameraVars, throttleVars, queueVars, analysisVars, processorVars, endpointVars>>

Next ==
    \/ \E t \in Endpoints, c \in Clients : connect(t, c)
    \/ \E t \in Tasks : connect_29(t)
    \/ \E t \in Tasks : send_to_client_71(t)
    \/ \E t \in Tasks : send_to_client_74(t)
    \/ \E t \in Endpoints, c \in Clients : disconnect(t, c)
    \/ \E t \in Tasks : disconnect_48(t)
    \/ \E t \in Tasks : disconnect_63(t)
    \/ \E t \in Endpoints, c \in Clients, s \in Cameras : subscribe_to_camera(t, c, s)
    \/ \E t \in Tasks : subscribe_to_camera_105(t)
    \/ \E t \in Tasks : subscribe_to_camera_110(t)
    \/ \E t \in Endpoints, c \in Clients, s \in Cameras : unsubscribe_from_camera(t, c, s)
    \/ \E t \in Tasks : unsubscribe_from_camera_127(t)
    \/ \E t \in Tasks : unsubscribe_from_camera_130(t)
    \/ \E t \in Publishers, x \in Excludes : broadcast(t, x)
    \/ \E t \in Tasks : broadcast_89(t)
    \/ \E t \in Tasks : broadcast_100(t)
    \/ \E t \in Publishers, s \in Cameras : send_camera_update(t, s)
    \/ \E t \in Tasks : send_camera_update_148(t)
    \/ \E t \in Tasks : send_camera_update_158(t)
    \/ \E t \in Tasks : send_camera_update_173(t)
    \/ \E t \in Publishers, s \in Cameras, sev \in Severities : send_event_notification(t, s, sev)
    \/ \E t \in Tasks : send_event_notification_192(t)
    \/ \E t \in Tasks : send_event_notification_199(t)
    \/ \E t \in Tasks : send_event_notification_203(t)
    \/ \E t \in Tasks : Finish(t)

Spec == Init /\ [][Next]_vars

\* ============================================================ application
\* VideoProcessor.start, video_processor.py lines 291-306, with _start_background_tasks (330-345) and
\* _load_cameras (346-382): every configuration gets its CameraStream, and
\* the ones whose capture opened are registered with a processing loop
StartBody(opened) ==
    /\ ~processor_is_running
    /\ stop_call.pc = "idle"
    /\ processor_is_running' = TRUE
    /\ worker_loop' = [w \in Workers |-> "running"]
    /\ streams' = [o \in StreamObjects |->
                      IF o \in 1..NumSources
                      THEN [id |-> SourceIds[o],
                            status |-> IF SourceIds[o] \in opened THEN "connected" ELSE "error",
                            is_active |-> SourceIds[o] \in opened]
                      ELSE streams[o]]
    /\ cameras' = [id \in opened |-> CHOOSE o \in 1..NumSources : SourceIds[o] = id]
    /\ camera_loop' = [o \in StreamObjects |->
                          IF o \in 1..NumSources /\ SourceIds[o] \in opened
                          THEN [pc |-> "loop_425", errors |-> 0] ELSE camera_loop[o]]
    /\ UNCHANGED <<add_call, stop_call>>

\* main.py lifespan lines 26-37: create_tables() and video_processor.start().
\* Nothing here calls websocket_manager.start().  The application serves no
\* request before start has returned.
lifespan_startup ==
    /\ lifespan = "created"
    /\ lifespan' = "serving"
    /\ \E opened \in SUBSET Sources : StartBody(opened)
    /\ UNCHANGED <<instances, event_handler, is_running, connections, subscribers,
                   event_notifications, heartbeats, events_published>>
    /\ UNCHANGED <<managerVars, cameraVars, throttleVars, queueVars, analysisVars, endpointVars>>

\* main.py lines 72-74: the endpoint registers the client with main.py's
\* global websocket_manager
websocket_endpoint_connect(c) ==
    /\ lifespan = "serving"
    /\ c \notin connections[MainInstance]
    /\ connections' = [connections EXCEPT ![MainInstance] = @ \cup {c}]
    /\ UNCHANGED <<lifespan, instances, event_handler, is_running, subscribers,
                   event_notifications, heartbeats, events_published>>
    /\ UNCHANGED <<managerVars, cameraVars, throttleVars, queueVars, analysisVars, processorVars, endpointVars>>

\* main.py lines 85-88
websocket_endpoint_subscribe(c, s) ==
    /\ c \in connections[MainInstance]
    /\ s \notin {x \in Sources : c \in subscribers[MainInstance][x]}
    /\ subscribers' = [subscribers EXCEPT ![MainInstance][s] = @ \cup {c}]
    /\ UNCHANGED <<lifespan, instances, event_handler, is_running, connections,
                   event_notifications, heartbeats, events_published>>
    /\ UNCHANGED <<managerVars, cameraVars, throttleVars, queueVars, analysisVars, processorVars, endpointVars>>

\* main.py lines 89-91
websocket_endpoint_unsubscribe(c, s) ==
    /\ c \in connections[MainInstance]
    /\ c \in subscribers[MainInstance][s]
    /\ subscribers' = [subscribers EXCEPT ![MainInstance][s] = @ \ {c}]
    /\ UNCHANGED <<lifespan, instances, event_handler, is_running, connections,
                   event_notifications, heartbeats, events_published>>
    /\ UNCHANGED <<managerVars, cameraVars, throttleVars, queueVars, analysisVars, processorVars, endpointVars>>

\* main.py lines 93-97
websocket_endpoint_disconnect(c) ==
    /\ c \in connections[MainInstance]
    /\ connections' = [connections EXCEPT ![MainInstance] = @ \ {c}]
    /\ subscribers' = [subscribers EXCEPT ![MainInstance] =
                          [s \in Sources |-> subscribers[MainInstance][s] \ {c}]]
    /\ UNCHANGED <<lifespan, instances, event_handler, is_running,
                   event_notifications, heartbeats, events_published>>
    /\ UNCHANGED <<managerVars, cameraVars, throttleVars, queueVars, analysisVars, processorVars, endpointVars>>

\* websocket_manager.py lines 451-458: the handler wraps the module's own
\* global websocket_manager, created here when it is still None
get_event_handler ==
    IF event_handler = "None" THEN ServicesInstance ELSE event_handler

\* video_processor.py lines 434-439 with websocket_manager.py lines 352-365
\* and 188-200: a motion event of source s goes to the subscribers of s in
\* the instance the event handler wraps
handle_motion_detection(s) ==
    /\ lifespan = "serving"
    /\ events_published[s] < MaxEvents
    /\ LET h == get_event_handler
           to == subscribers[h][s] \cap connections[h] IN
       /\ event_handler' = h
       /\ instances' = instances \cup {h}
       /\ event_notifications' =
              [c \in Clients |-> event_notifications[c] + (IF c \in to THEN 1 ELSE 0)]
    /\ events_published' = [events_published EXCEPT ![s] = @ + 1]
    /\ UNCHANGED <<lifespan, is_running, connections, subscribers, heartbeats>>
    /\ UNCHANGED <<managerVars, cameraVars, throttleVars, queueVars, analysisVars, processorVars, endpointVars>>

\* WebSocketManager.start, lines 251-262: it alone creates the heartbeat task
start(m) ==
    /\ m \in instances /\ ~is_running[m]
    /\ is_running' = [is_running EXCEPT ![m] = TRUE]
    /\ UNCHANGED <<lifespan, instances, event_handler, connections, subscribers,
                   event_notifications, heartbeats, events_published>>
    /\ UNCHANGED <<managerVars, cameraVars, throttleVars, queueVars, analysisVars, processorVars, endpointVars>>

\* WebSocketManager._heartbeat_task, lines 284-295: one turn of the loop
_heartbeat_task(m) ==
    /\ m \in instances /\ is_running[m]
    /\ heartbeats' = [c \in Clients |->
                         heartbeats[c] + (IF c \in connections[m] /\ heartbeats[c] < MaxEvents
                                          THEN 1 ELSE 0)]
    /\ UNCHANGED <<lifespan, instances, event_handler, is_running, connections,
                   subscribers, event_notifications, events_published>>
    /\ UNCHANGED <<managerVars, cameraVars, throttleVars, queueVars, analysisVars, processorVars, endpointVars>>

\* The application as main.py runs it.  start and _heartbeat_task are not
\* steps of it: no statement of main.py or of the services calls start on any
\* instance.
NextApp ==
    \/ lifespan_startup
    \/ \E c \in Clients : websocket_endpoint_connect(c)
    \/ \E c \in Clients, s \in Sources : websocket_endpoint_subscribe(c, s)
    \/ \E c \in Clients, s \in Sources : websocket_endpoint_unsubscribe(c, s)
    \/ \E c \in Clients : websocket_endpoint_disconnect(c)
    \/ \E s \in Sources : handle_motion_detection(s)

\* the event loop keeps running the application's coroutines
SpecApp == Init /\ [][NextApp]_vars /\ WF_vars(NextApp)

\* ================================================================ one source
\* One CameraStream of video_processor.py with the coroutines that call it.
\* cap.isOpened() and cap.read() are the answers of the capture device
\* (line 61 names cv2.VideoCapture as the device; the demo capture of lines
\* 215-273 answers True while it is open), so they are inputs of the steps.
\* The awaits of handle_camera_status_change do not suspend: the manager the
\* handler wraps holds no connection.
ErrorThreshold == 10
HealthCheckThreshold == 20
QueueCapacity == 100

Edge(a, b) == IF a = b THEN {} ELSE {<<a, b>>}

\* what leaves the stream's error state forgets the updates sent during it
Updates(s) == IF s = "error" THEN error_updates ELSE 0

\* asyncio.Queue.put(item) of a queue built with maxsize=100 (line 284): put
\* takes the item only, so a call that passes a keyword raises TypeError
\* before anything is queued; without keyword it queues or waits for room
Queue_put(q, keywords) ==
    IF keywords # {} THEN [raised |-> "TypeError", qsize |-> q]
    ELSE IF q < QueueCapacity THEN [raised |-> "none", qsize |-> q + 1]
    ELSE [raised |-> "waiting", qsize |-> q]

\* CameraStream.connect up to the sleep of line 58, for caller k
connect_55(k, from) ==
    /\ caller[k] = from
    /\ status' = "connecting"
    /\ edges' = Edge(status, "connecting")
    /\ notification' = "none"
    /\ error_updates' = 0
    /\ caller' = [caller EXCEPT ![k] = "connect_58"]
    /\ UNCHANGED <<is_active, cap, error_count, in_cameras, frame_queue, failed_run, loop>>
    /\ UNCHANGED <<managerVars, appVars, throttleVars, queueVars, analysisVars, processorVars, endpointVars>>

\* VideoProcessor.add_camera, lines 384-393: a new stream starts to connect
add_camera_393 ==
    /\ ~in_cameras
    /\ connect_55("add_camera", "idle")

\* CameraStream.connect from line 62 to its return, and what the caller does
\* with the result (add_camera lines 395-407; the others ignore it)
connect_62(k) ==
    /\ caller[k] = "connect_58"
    /\ \E opened \in BOOLEAN :
         /\ cap' = "capture"
         /\ IF opened
            THEN /\ is_active' = TRUE
                 /\ status' = "connected"
                 /\ error_count' = 0
                 /\ failed_run' = 0
                 /\ notification' = "online"
            ELSE /\ status' = "error"
                 /\ notification' = "none"
                 /\ UNCHANGED <<is_active, error_count, failed_run>>
         /\ in_cameras' = IF k = "add_camera" /\ opened THEN TRUE ELSE in_cameras
         /\ loop' = IF k = "add_camera" /\ opened
                    THEN [pc |-> "loop_425", frame |-> FALSE, raised |-> "none"]
                    ELSE loop
    /\ edges' = Edge(status, status')
    /\ error_updates' = IF status = "error" THEN Updates(status') ELSE 0
    /\ caller' = [caller EXCEPT ![k] = IF k = "add_camera" THEN "done" ELSE "idle"]
    /\ UNCHANGED frame_queue
    /\ UNCHANGED <<managerVars, appVars, throttleVars, queueVars, analysisVars, processorVars, endpointVars>>

\* VideoProcessor.remove_camera, lines 409-419, with CameraStream.disconnect
remove_camera ==
    /\ in_cameras
    /\ is_active' = FALSE
    /\ cap' = "None"
    /\ status' = "disconnected"
    /\ notification' = "offline"
    /\ edges' = Edge(status, "disconnected")
    /\ error_updates' = 0
    /\ in_cameras' = FALSE
    /\ UNCHANGED <<error_count, caller, frame_queue, failed_run, loop>>
    /\ UNCHANGED <<managerVars, appVars, throttleVars, queueVars, analysisVars, processorVars, endpointVars>>

\* api/routes/cameras.py lines 106-108: disconnect, then connect up to its sleep
update_camera_107 ==
    /\ in_cameras
    /\ caller["update_camera"] = "idle"
    /\ is_active' = FALSE
    /\ cap' = "None"
    /\ status' = "connecting"
    /\ notification' = "offline"
    /\ edges' = Edge(status, "disconnected") \cup {<<"disconnected", "connecting">>}
    /\ error_updates' = 0
    /\ caller' = [caller EXCEPT !["update_camera"] = "connect_58"]
    /\ UNCHANGED <<error_count, in_cameras, frame_queue, failed_run, loop>>
    /\ UNCHANGED <<managerVars, appVars, throttleVars, queueVars, analysisVars, processorVars, endpointVars>>

\* _health_check_task, lines 764-772: disconnect a stream with many errors
_health_check_task_771 ==
    /\ in_cameras
    /\ caller["health_check"] = "idle"
    /\ error_count > HealthCheckThreshold
    /\ is_active' = FALSE
    /\ cap' = "None"
    /\ status' = "disconnected"
    /\ notification' = "offline"
    /\ edges' = Edge(status, "disconnected")
    /\ error_updates' = 0
    /\ caller' = [caller EXCEPT !["health_check"] = "health_772"]
    /\ UNCHANGED <<error_count, in_cameras, frame_queue, failed_run, loop>>
    /\ UNCHANGED <<managerVars, appVars, throttleVars, queueVars, analysisVars, processorVars, endpointVars>>

\* _health_check_task, line 773, after the sleep of line 772
_health_check_task_773 ==
    /\ caller["health_check"] = "health_772"
    /\ connect_55("health_check", "health_772")

\* _camera_processing_loop, line 425: the loop ends when the stream is inactive
_camera_processing_loop_425 ==
    /\ loop.pc = "loop_425"
    /\ ~is_active
    /\ loop' = [pc |-> "ended", frame |-> FALSE, raised |-> "none"]
    /\ notification' = "none"
    /\ edges' = {}
    /\ UNCHANGED <<status, is_active, cap, error_count, in_cameras, caller,
                   error_updates, frame_queue, failed_run>>
    /\ UNCHANGED <<managerVars, appVars, throttleVars, queueVars, analysisVars, processorVars, endpointVars>>

\* _camera_processing_loop, lines 427-464, with CameraStream.read_frame
\* (lines 113-131): one frame read and, if there is a frame, queued
_camera_processing_loop_427 ==
    /\ loop.pc = "loop_425"
    /\ is_active /\ cap # "None"
    /\ \E ret \in BOOLEAN :
         IF ret
         THEN LET put == Queue_put(frame_queue, {"timeout"}) IN
              /\ failed_run' = 0
              /\ frame_queue' = put.qsize
              /\ loop' = [pc |-> IF put.raised = "none" THEN "loop_467" ELSE "loop_473",
                          frame |-> TRUE, raised |-> put.raised]
              /\ UNCHANGED <<status, error_count>>
         ELSE /\ error_count < MaxErrorCount
              /\ error_count' = error_count + 1
              /\ failed_run' = failed_run + 1
              /\ status' = IF error_count' > ErrorThreshold THEN "error" ELSE status
              /\ loop' = [pc |-> "loop_467", frame |-> FALSE, raised |-> "none"]
              /\ UNCHANGED frame_queue
    /\ notification' = "none"
    /\ edges' = Edge(status, status')
    /\ error_updates' = IF status = "error" THEN error_updates ELSE 0
    /\ UNCHANGED <<is_active, cap, in_cameras, caller>>
    /\ UNCHANGED <<managerVars, appVars, throttleVars, queueVars, analysisVars, processorVars, endpointVars>>

\* _camera_processing_loop, the sleep of line 467 or, after an exception,
\* the handler of lines 471-473
_camera_processing_loop_467 ==
    /\ loop.pc \in {"loop_467", "loop_473"}
    /\ loop' = [pc |-> "loop_425", frame |-> FALSE, raised |-> "none"]
    /\ notification' = "none"
    /\ edges' = {}
    /\ UNCHANGED <<status, is_active, cap, error_count, in_cameras, caller,
                   error_updates, frame_queue, failed_run>>
    /\ UNCHANGED <<managerVars, appVars, throttleVars, queueVars, analysisVars, processorVars, endpointVars>>

\* _status_monitoring_loop, lines 557-572: the periodic status_update of a
\* stream of VideoProcessor.cameras
_status_monitoring_loop ==
    /\ in_cameras
    /\ status = "error" => error_updates < MaxUpdates
    /\ error_updates' = IF status = "error" THEN error_updates + 1 ELSE error_updates
    /\ notification' = "none"
    /\ edges' = {}
    /\ UNCHANGED <<status, is_active, cap, error_count, in_cameras, caller,
                   frame_queue, failed_run, loop>>
    /\ UNCHANGED <<managerVars, appVars, throttleVars, queueVars, analysisVars, processorVars, endpointVars>>

NextCamera ==
    \/ add_camera_393
    \/ \E k \in Callers : connect_62(k)
    \/ remove_camera
    \/ update_camera_107
    \/ _health_check_task_771
    \/ _health_check_task_773
    \/ _camera_processing_loop_425
    \/ _camera_processing_loop_427
    \/ _camera_processing_loop_467
    \/ _status_monitoring_loop

SpecCamera == Init /\ [][NextCamera]_vars

\* ============================================================ the throttle
\* Time in whole seconds.  The sleep of line 467 (1/30 s) ends within the
\* second it starts in; the sleep of the handler of line 473 lasts one second.
time_passes ==
    /\ now < MaxTime
    /\ now' = now + 1
    /\ UNCHANGED <<last_processed_time, wake, last_attempt>>
    /\ UNCHANGED <<managerVars, appVars, cameraVars, queueVars, analysisVars, processorVars, endpointVars>>

\* _camera_processing_loop, lines 441-473, for a frame of a stream with
\* ai_enabled: the check of the interval, the put and what follows it
_camera_processing_loop_444 ==
    /\ now >= wake
    /\ IF now - last_processed_time >= process_interval
       THEN LET put == Queue_put(frame_queue, {"timeout"}) IN
            /\ last_attempt' = now
            /\ frame_queue' = put.qsize
            /\ IF put.raised = "none"
               THEN /\ last_processed_time' = now
                    /\ wake' = now
               ELSE /\ wake' = now + 1
                    /\ UNCHANGED last_processed_time
       ELSE /\ wake' = now
            /\ UNCHANGED <<last_processed_time, last_attempt, frame_queue>>
    /\ UNCHANGED now
    /\ UNCHANGED <<status, is_active, cap, error_count, in_cameras, caller, notification,
                   edges, failed_run, error_updates, loop>>
    /\ UNCHANGED <<managerVars, appVars, queueVars, analysisVars, processorVars, endpointVars>>

NextThrottle ==
    \/ time_passes
    \/ _camera_processing_loop_444

SpecThrottle == Init /\ [][NextThrottle]_vars

\* ======================================================= the frame queue
\* The two loops that take from VideoProcessor.frame_queue.  The one put of
\* the sources (lines 449-457) raises before it queues anything, so the
\* program as it stands never has a job in the queue; what the loops do with
\* a job is stated here for jobs put with the item alone, as Queue.put takes
\* them.
InSeq(x, q) == \E i \in 1..Len(q) : q[i] = x

\* a get that takes the newest job: the variant C24 must tell from the code
Queue_get_newest(q) == [item |-> q[Len(q)], rest |-> SubSeq(q, 1, Len(q) - 1)]

\* asyncio.Queue.get on a queue that holds a job: the oldest job
Queue_get(q) == [item |-> Head(q), rest |-> Tail(q)]

\* the methods class AIService defines (ai_service.py lines 17-531)
AIService == {"__init__", "chat_query", "_get_video_context", "_get_current_frame",
              "_parse_monitoring_request", "_parse_events_query",
              "_extract_cameras_from_message", "_extract_time_period",
              "_query_claude_api", "_get_intelligent_fallback", "_process_actions"}

\* self.ai_service.analyze_frame(...), line 511: looking up a name the object
\* does not have raises AttributeError
analyze_frame == IF "analyze_frame" \in AIService THEN "returned" ELSE "AttributeError"

\* frame_queue.put(job) by a source s: the job joins the queue when there is room
accept(s) ==
    LET n == Cardinality({j \in submitted : j.camera_id = s}) + 1
        job == [camera_id |-> s, n |-> n, after_failure |-> ai_loop.failed]
        put == Queue_put(Len(queued), {}) IN
    /\ n <= MaxJobs
    /\ put.raised = "none"
    /\ queued' = Append(queued, job)
    /\ submitted' = submitted \cup {job}
    /\ UNCHANGED <<analysed, discarded, frame_loop, ai_loop>>
    /\ UNCHANGED <<managerVars, appVars, cameraVars, throttleVars, analysisVars, processorVars, endpointVars>>

\* _frame_processing_loop, lines 484-489: it takes a job and does nothing with it
_frame_processing_loop_484 ==
    /\ frame_loop = "get_484"
    /\ queued # <<>>
    /\ LET got == Queue_get(queued) IN
       /\ queued' = got.rest
       /\ discarded' = discarded \cup {got.item}
    /\ frame_loop' = "sleep_489"
    /\ UNCHANGED <<submitted, analysed, ai_loop>>
    /\ UNCHANGED <<managerVars, appVars, cameraVars, throttleVars, analysisVars, processorVars, endpointVars>>

\* _frame_processing_loop, line 489: the sleep ends and the loop turns
_frame_processing_loop_489 ==
    /\ frame_loop = "sleep_489"
    /\ frame_loop' = "get_484"
    /\ UNCHANGED <<queued, submitted, analysed, discarded, ai_loop>>
    /\ UNCHANGED <<managerVars, appVars, cameraVars, throttleVars, analysisVars, processorVars, endpointVars>>

\* _ai_analysis_loop, lines 507-546: one turn of the loop up to its sleep
_ai_analysis_loop_507 ==
    /\ ai_loop.pc = "loop_507"
    /\ IF queued # <<>>
       THEN LET got == Queue_get(queued) IN
            /\ queued' = got.rest
            /\ analysed' = Append(analysed, got.item)
            /\ ai_loop' = IF analyze_frame = "returned"
                          THEN [ai_loop EXCEPT !.pc = "sleep_540"]
                          ELSE [pc |-> "sleep_546", raised |-> analyze_frame, failed |-> TRUE]
       ELSE /\ ai_loop' = [ai_loop EXCEPT !.pc = "sleep_540"]
            /\ UNCHANGED <<queued, analysed>>
    /\ UNCHANGED <<submitted, discarded, frame_loop>>
    /\ UNCHANGED <<managerVars, appVars, cameraVars, throttleVars, analysisVars, processorVars, endpointVars>>

\* _ai_analysis_loop, the sleep of line 540 or of the handler's line 546
_ai_analysis_loop_540 ==
    /\ ai_loop.pc \in {"sleep_540", "sleep_546"}
    /\ ai_loop' = [ai_loop EXCEPT !.pc = "loop_507", !.raised = "none"]
    /\ UNCHANGED <<queued, submitted, analysed, discarded, frame_loop>>
    /\ UNCHANGED <<managerVars, appVars, cameraVars, throttleVars, analysisVars, processorVars, endpointVars>>

NextQueue ==
    \/ \E s \in Sources : accept(s)
    \/ _frame_processing_loop_484
    \/ _frame_processing_loop_489
    \/ _ai_analysis_loop_507
    \/ _ai_analysis_loop_540

SpecQueue == Init /\ [][NextQueue]_vars

\* ===================================================== the analysis service
\* VideoAnalysisService: the event store, the monitoring tasks and the pass
\* that matches an event against them.  The pass awaits broadcast inside its
\* loop over the live list (lines 201-213); broadcast may return, or raise the
\* RuntimeError of a dict that changed size while it was iterated
\* (websocket_manager.py lines 89-97).
\* q[:n], the variant C28 must tell from the code
KeepFirst(q, n) == IF Len(q) > n THEN SubSeq(q, 1, n) ELSE q

\* q[-n:]
KeepLast(q, n) == IF Len(q) > n THEN SubSeq(q, Len(q) - n + 1, Len(q)) ELSE q

\* lines 206-209, after the test of line 202
Matches(t, e) ==
    /\ t.active
    /\ e.camera_id \in t.camera_ids
    /\ e.event_type \in t.event_types

IdsOf(tasks) == {tasks[k].id : k \in 1..Len(tasks)}

\* the for loop of line 201 from position from on: the first task that
\* matches, 0 when the list ends first
NextIndex(tasks, from, e) ==
    LET S == {k \in from..Len(tasks) : Matches(tasks[k], e)} IN
    IF S = {} THEN 0 ELSE CHOOSE k \in S : \A m \in S : k <= m

\* the pass goes on from position from: it ends, or it hands the alert of the
\* next matching task to broadcast and is suspended there
GoOn(tasks, from, e, started) ==
    LET k == NextIndex(tasks, from, e) IN
    IF k = 0
    THEN /\ check' = NoCheck
         /\ UNCHANGED alerts
    ELSE /\ check' = [pc |-> "broadcast_231", event |-> e, i |-> k,
                       task_id |-> tasks[k].id, at_start |-> started]
         /\ alerts' = [alerts EXCEPT ![tasks[k].id, e.id] = @ + 1]

\* _process_detected_event, lines 185-195, for an event of _analyze_frame
_process_detected_event(c, ty) ==
    /\ check.pc = "idle"
    /\ events_detected < MaxDetected
    /\ \E dt \in {0, 1} :
         /\ clock + dt <= MaxClock
         /\ clock' = clock + dt
    /\ LET e == [id |-> events_detected + 1, camera_id |-> c, event_type |-> ty,
                 timestamp |-> clock'] IN
       /\ detected_events' = KeepLast(Append(detected_events, e), StoreCapacity)
       /\ GoOn(monitoring_tasks, 1, e, IdsOf(monitoring_tasks))
    /\ events_detected' = events_detected + 1
    /\ removed' = NoRemove
    /\ period' = NoPeriod
    /\ UNCHANGED <<monitoring_tasks, tasks_added, removed_at>>
    /\ UNCHANGED <<managerVars, appVars, cameraVars, throttleVars, queueVars, processorVars, endpointVars>>

\* _trigger_monitoring_alert from its await of line 231 on, and the pass
\* after it: line 213 and the next turns of the loop of line 201
_trigger_monitoring_alert_231 ==
    /\ check.pc = "broadcast_231"
    /\ \E outcome \in {"returned", "RuntimeError"} :
         IF outcome = "returned"
         THEN /\ monitoring_tasks' =
                    [k \in 1..Len(monitoring_tasks) |->
                        IF monitoring_tasks[k].id = check.task_id
                        THEN [monitoring_tasks[k] EXCEPT !.last_triggered = clock]
                        ELSE monitoring_tasks[k]]
              /\ GoOn(monitoring_tasks, check.i + 1, check.event, check.at_start)
         ELSE /\ check' = NoCheck
              /\ UNCHANGED <<alerts, monitoring_tasks>>
    /\ removed' = NoRemove
    /\ period' = NoPeriod
    /\ UNCHANGED <<detected_events, clock, events_detected, tasks_added, removed_at>>
    /\ UNCHANGED <<managerVars, appVars, cameraVars, throttleVars, queueVars, processorVars, endpointVars>>

\* add_monitoring_task, lines 235-249
add_monitoring_task(cams, types) ==
    /\ tasks_added < MaxTasks
    /\ monitoring_tasks' = Append(monitoring_tasks,
                                  [id |-> tasks_added + 1, camera_ids |-> cams,
                                   event_types |-> types, active |-> TRUE,
                                   last_triggered |-> 0])
    /\ tasks_added' = tasks_added + 1
    /\ removed' = NoRemove
    /\ period' = NoPeriod
    /\ UNCHANGED <<detected_events, check, alerts, clock, events_detected, removed_at>>
    /\ UNCHANGED <<managerVars, appVars, cameraVars, throttleVars, queueVars, processorVars, endpointVars>>

\* the variant of remove_monitoring_task that C27 must tell from the code:
\* it answers True and leaves the task in the list
remove_monitoring_task_keep(task_id) ==
    LET S == {k \in 1..Len(monitoring_tasks) : monitoring_tasks[k].id = task_id} IN
    /\ removed' = [task_id |-> task_id, value |-> IF S = {} THEN "False" ELSE "True"]
    /\ removed_at' = IF S = {} THEN removed_at
                     ELSE [removed_at EXCEPT ![task_id] = events_detected]
    /\ period' = NoPeriod
    /\ UNCHANGED <<detected_events, monitoring_tasks, check, alerts, clock,
                   events_detected, tasks_added>>
    /\ UNCHANGED <<managerVars, appVars, cameraVars, throttleVars, queueVars, processorVars, endpointVars>>

\* remove_monitoring_task, lines 251-258
remove_monitoring_task(task_id) ==
    LET S == {k \in 1..Len(monitoring_tasks) : monitoring_tasks[k].id = task_id}
        i == CHOOSE k \in S : \A m \in S : k <= m IN
    /\ IF S = {}
       THEN /\ removed' = [task_id |-> task_id, value |-> "False"]
            /\ UNCHANGED <<monitoring_tasks, removed_at>>
       ELSE /\ monitoring_tasks' = SubSeq(monitoring_tasks, 1, i - 1)
                                   \o SubSeq(monitoring_tasks, i + 1, Len(monitoring_tasks))
            /\ removed' = [task_id |-> task_id, value |-> "True"]
            /\ removed_at' = [removed_at EXCEPT ![task_id] = events_detected]
    /\ period' = NoPeriod
    /\ UNCHANGED <<detected_events, check, alerts, clock, events_detected, tasks_added>>
    /\ UNCHANGED <<managerVars, appVars, cameraVars, throttleVars, queueVars, processorVars, endpointVars>>

\* sorted(q, key=timestamp) without reverse, oldest first: the variant C29
\* must tell from the code
RECURSIVE sorted_forward(_)
sorted_forward(q) ==
    IF q = <<>> THEN <<>>
    ELSE LET rest == sorted_forward(Tail(q))
             x == Head(q)
             n == Cardinality({k \in 1..Len(rest) : rest[k].timestamp < x.timestamp}) IN
         SubSeq(rest, 1, n) \o <<x>> \o SubSeq(rest, n + 1, Len(rest))

\* sorted(q, key=lambda e: e.timestamp, reverse=True), line 284: newest
\* first, and events of equal timestamp keep the order they have in q
RECURSIVE sorted_reverse(_)
sorted_reverse(q) ==
    IF q = <<>> THEN <<>>
    ELSE LET rest == sorted_reverse(Tail(q))
             x == Head(q)
             n == Cardinality({k \in 1..Len(rest) : rest[k].timestamp > x.timestamp}) IN
         SubSeq(rest, 1, n) \o <<x>> \o SubSeq(rest, n + 1, Len(rest))

\* the filter of lines 272-282
RECURSIVE filtered_events(_, _, _, _)
filtered_events(q, cams, start_time, end_time) ==
    IF q = <<>> THEN <<>>
    ELSE LET e == Head(q)
             rest == filtered_events(Tail(q), cams, start_time, end_time) IN
         IF ~(start_time <= e.timestamp /\ e.timestamp <= end_time) THEN rest
         ELSE IF cams # {} /\ e.camera_id \notin cams THEN rest
         ELSE <<e>> \o rest

\* get_events_for_period, lines 260-284, called with both times given
get_events_for_period(cams, start_time, end_time) ==
    /\ start_time <= end_time
    /\ period' = [camera_ids |-> cams, start_time |-> start_time, end_time |-> end_time,
                  value |-> sorted_reverse(filtered_events(detected_events, cams,
                                                            start_time, end_time))]
    /\ removed' = NoRemove
    /\ UNCHANGED <<detected_events, monitoring_tasks, check, alerts, clock,
                   events_detected, tasks_added, removed_at>>
    /\ UNCHANGED <<managerVars, appVars, cameraVars, throttleVars, queueVars, processorVars, endpointVars>>

NextAnalysis ==
    \/ \E c \in Sources, ty \in EventTypes : _process_detected_event(c, ty)
    \/ _trigger_monitoring_alert_231
    \/ \E cams \in TaskCameraIds, types \in TaskEventTypes : add_monitoring_task(cams, types)
    \/ \E t \in TaskIds : remove_monitoring_task(t)

SpecAnalysis == Init /\ [][NextAnalysis]_vars

\* the event store alone: events arrive and periods are asked for
NextStore ==
    \/ \E c \in Sources, ty \in EventTypes : _process_detected_event(c, ty)
    \/ \E cams \in PeriodCameraIds, a \in 1..MaxClock, b \in 1..MaxClock :
           get_events_for_period(cams, a, b)

SpecStore == Init /\ [][NextStore]_vars

\* ============================================================ the endpoint
\* The texts a client sends: the three messages the endpoint knows, a JSON
\* text that is cut off, a word that is no JSON, and a JSON list.
InboundTexts ==
    {"{\"type\": \"ping\"}",
     "{\"type\": \"subscribe_camera\", \"camera_id\": \"cam1\"}",
     "{\"type\": \"unsubscribe_camera\", \"camera_id\": \"cam1\"}",
     "{\"type\": \"subscribe_camera\"",
     "ping",
     "[\"ping\"]"}

\* json.loads(data), main.py line 79, on these texts: the object of a JSON
\* object text, the list of a JSON list text, JSONDecodeError otherwise
json_loads(data) ==
    CASE data = "{\"type\": \"ping\"}" -> [kind |-> "dict", type |-> "ping", camera_id |-> "None"]
      [] data = "{\"type\": \"subscribe_camera\", \"camera_id\": \"cam1\"}" ->
             [kind |-> "dict", type |-> "subscribe_camera", camera_id |-> SourceIds[1]]
      [] data = "{\"type\": \"unsubscribe_camera\", \"camera_id\": \"cam1\"}" ->
             [kind |-> "dict", type |-> "unsubscribe_camera", camera_id |-> SourceIds[1]]
      [] data = "[\"ping\"]" -> [kind |-> "list", type |-> "None", camera_id |-> "None"]
      [] OTHER -> [kind |-> "JSONDecodeError", type |-> "None", camera_id |-> "None"]

\* what lines 79-97 raise for a text: json.loads raises JSONDecodeError, and
\* message.get on a list raises AttributeError; both are caught at line 95
endpoint_raises(data) ==
    LET message == json_loads(data) IN
    IF message.kind = "JSONDecodeError" THEN "JSONDecodeError"
    ELSE IF message.kind # "dict" THEN "AttributeError"
    ELSE "none"

\* websocket_endpoint, main.py lines 78-97: one text is received and handled.
\* An exception of lines 79-91 leaves the while loop for the handler of
\* lines 95-97, which disconnects the client.
websocket_endpoint_78(c, data) ==
    /\ c \in connections[MainInstance]
    /\ received < MaxReceived
    /\ received' = received + 1
    /\ inbound' = [client |-> c, data |-> data]
    /\ LET message == json_loads(data) IN
       IF endpoint_raises(data) # "none"
       THEN /\ connections' = [connections EXCEPT ![MainInstance] = @ \ {c}]
            /\ subscribers' = [subscribers EXCEPT ![MainInstance] =
                                  [s \in Sources |-> subscribers[MainInstance][s] \ {c}]]
       ELSE /\ subscribers' =
                   IF message.type = "subscribe_camera"
                   THEN [subscribers EXCEPT ![MainInstance][message.camera_id] = @ \cup {c}]
                   ELSE IF message.type = "unsubscribe_camera"
                   THEN [subscribers EXCEPT ![MainInstance][message.camera_id] = @ \ {c}]
                   ELSE subscribers
            /\ UNCHANGED connections
    /\ UNCHANGED <<lifespan, instances, event_handler, is_running,
                   event_notifications, heartbeats, events_published>>
    /\ UNCHANGED <<managerVars, cameraVars, throttleVars, queueVars, analysisVars, processorVars>>

NextEndpoint ==
    \/ lifespan_startup
    \/ \E c \in Clients : websocket_endpoint_connect(c)
    \/ \E c \in Clients, data \in InboundTexts : websocket_endpoint_78(c, data)
    \/ \E c \in Clients : websocket_endpoint_disconnect(c)

SpecEndpoint == Init /\ [][NextEndpoint]_vars

\* ============================================================ the processor
\* VideoProcessor of video_processor.py as a unit: its camera dict, the
\* CameraStream objects, one task per _camera_processing_loop and per worker
\* loop, and the add_camera, remove_camera and stop coroutines that callers
\* run at the same time.  A coroutine gives up the event loop only where it
\* really suspends: connect sleeps at line 58, the loops sleep at lines 467
\* and 473, stop waits in gather at line 321.  The status notifications of
\* connect and disconnect (lines 71-74, 108-111) go to the event handler's
\* manager, which has no client (see the application section), and return
\* without suspending.

\* ids callers pass to add_camera: one that _load_cameras registered and a
\* new one
AddIds == {SourceIds[1], SourceIds[NumSources + 1]}

\* what one turn of lines 426-467 raises: nothing, the TypeError of the put
\* of lines 451-459, the RuntimeError of a notification (lines 436-439)
IterationRaises == {"none", "TypeError", "RuntimeError"}

LivePcs == {"loop_425", "sleep_467", "sleep_473"}
Disconnected(st) == [st EXCEPT !.status = "disconnected", !.is_active = FALSE]

\* lines 469-473 without a handler for Exception: what is raised ends the loop
camera_loop_no_handler(raised) ==
    "ended"

\* lines 469-473: where the loop goes when its turn raised; TypeError and
\* RuntimeError are subclasses of Exception, CancelledError is a BaseException
camera_loop_except(raised) ==
    IF raised = "CancelledError" THEN "ended"
    ELSE IF raised \in {"TypeError", "RuntimeError"} THEN "sleep_473"
    ELSE "ended"

\* start called on a VideoProcessor by itself
vp_start(opened) ==
    /\ StartBody(opened)
    /\ UNCHANGED <<managerVars, appVars, cameraVars, throttleVars, queueVars, analysisVars, endpointVars>>

\* add_camera, lines 386-393 and connect up to its sleep (lines 55-58)
vp_add_camera_388(k, id) ==
    /\ processor_is_running
    /\ add_call[k] = [pc |-> "idle", id |-> "none", value |-> "none"]
    /\ IF id \in DOMAIN cameras
       THEN /\ add_call' = [add_call EXCEPT ![k] = [pc |-> "idle", id |-> id, value |-> "False"]]
            /\ UNCHANGED streams
       ELSE /\ add_call' = [add_call EXCEPT ![k] = [pc |-> "connect_58", id |-> id, value |-> "none"]]
            /\ streams' = [streams EXCEPT ![NumSources + k] =
                              [id |-> id, status |-> "connecting", is_active |-> FALSE]]
    /\ UNCHANGED <<processor_is_running, cameras, camera_loop, worker_loop, stop_call>>
    /\ UNCHANGED <<managerVars, appVars, cameraVars, throttleVars, queueVars, analysisVars, endpointVars>>

\* connect from line 60 and add_camera lines 395-407
vp_add_camera_395(k, opened) ==
    /\ add_call[k].pc = "connect_58"
    /\ LET o == NumSources + k
           id == add_call[k].id IN
       IF opened
       THEN /\ streams' = [streams EXCEPT ![o].status = "connected", ![o].is_active = TRUE]
            /\ cameras' = [x \in DOMAIN cameras \cup {id} |-> IF x = id THEN o ELSE cameras[x]]
            /\ camera_loop' = [camera_loop EXCEPT ![o] = [pc |-> "loop_425", errors |-> 0]]
            /\ add_call' = [add_call EXCEPT ![k].pc = "idle", ![k].value = "True"]
       ELSE /\ streams' = [streams EXCEPT ![o].status = "error"]
            /\ add_call' = [add_call EXCEPT ![k].pc = "idle", ![k].value = "False"]
            /\ UNCHANGED <<cameras, camera_loop>>
    /\ UNCHANGED <<processor_is_running, worker_loop, stop_call>>
    /\ UNCHANGED <<managerVars, appVars, cameraVars, throttleVars, queueVars, analysisVars, endpointVars>>

\* remove_camera, lines 409-419, with disconnect (lines 96-111)
vp_remove_camera(id) ==
    /\ id \in DOMAIN cameras
    /\ streams' = [streams EXCEPT ![cameras[id]] = Disconnected(@)]
    /\ cameras' = [x \in DOMAIN cameras \ {id} |-> cameras[x]]
    /\ UNCHANGED <<processor_is_running, camera_loop, worker_loop, add_call, stop_call>>
    /\ UNCHANGED <<managerVars, appVars, cameraVars, throttleVars, queueVars, analysisVars, endpointVars>>

\* _camera_processing_loop, lines 425-473: the test of the while and one turn
\* up to the sleep it reaches
vp_camera_loop_425(o, raised) ==
    /\ camera_loop[o].pc = "loop_425"
    /\ raised # "none" => camera_loop[o].errors < MaxLoopErrors
    /\ IF ~processor_is_running \/ ~streams[o].is_active
       THEN /\ raised = "none"
            /\ camera_loop' = [camera_loop EXCEPT ![o].pc = "ended"]
       ELSE IF raised = "none"
       THEN camera_loop' = [camera_loop EXCEPT ![o].pc = "sleep_467"]
       ELSE camera_loop' = [camera_loop EXCEPT ![o].pc = camera_loop_except(raised),
                                               ![o].errors = @ + 1]
    /\ UNCHANGED <<processor_is_running, cameras, streams, worker_loop, add_call, stop_call>>
    /\ UNCHANGED <<managerVars, appVars, cameraVars, throttleVars, queueVars, analysisVars, endpointVars>>

\* the sleeps of lines 467 and 473 end: with the next turn, or, once stop
\* cancelled the task (lines 317-318), with CancelledError, caught at line
\* 469 inside the try and propagating from line 473
vp_camera_loop_467(o) ==
    /\ camera_loop[o].pc \in {"sleep_467", "sleep_473"}
    /\ camera_loop' = [camera_loop EXCEPT ![o].pc =
                          IF processor_is_running THEN "loop_425"
                          ELSE IF camera_loop[o].pc = "sleep_467"
                               THEN camera_loop_except("CancelledError")
                               ELSE "ended"]
    /\ UNCHANGED <<processor_is_running, cameras, streams, worker_loop, add_call, stop_call>>
    /\ UNCHANGED <<managerVars, appVars, cameraVars, throttleVars, queueVars, analysisVars, endpointVars>>

\* the worker loops (lines 477, 500, 550) end when stop cancelled them
vp_worker_loop(w) ==
    /\ worker_loop[w] = "running"
    /\ ~processor_is_running
    /\ worker_loop' = [worker_loop EXCEPT ![w] = "ended"]
    /\ UNCHANGED <<processor_is_running, cameras, streams, camera_loop, add_call, stop_call>>
    /\ UNCHANGED <<managerVars, appVars, cameraVars, throttleVars, queueVars, analysisVars, endpointVars>>

\* stop, lines 310-321: the flag, the cancel pass and the gather over the
\* tasks that processing_tasks holds at that moment
Stop313Body ==
    /\ processor_is_running
    /\ processor_is_running' = FALSE
    /\ stop_call' = [pc |-> "gather_321",
                     tasks |-> {o \in StreamObjects : camera_loop[o].pc \in LivePcs}]
    /\ UNCHANGED <<cameras, streams, camera_loop, worker_loop, add_call>>

vp_stop_313 ==
    /\ Stop313Body
    /\ UNCHANGED <<managerVars, appVars, cameraVars, throttleVars, queueVars, analysisVars, endpointVars>>

\* stop, lines 323-328, once the gathered tasks are done: the disconnect pass
\* over the cameras registered now, and the clear
vp_stop_324 ==
    /\ stop_call.pc = "gather_321"
    /\ \A o \in stop_call.tasks : camera_loop[o].pc = "ended"
    /\ \A w \in Workers : worker_loop[w] = "ended"
    /\ streams' = [o \in StreamObjects |->
                      IF \E id \in DOMAIN cameras : cameras[id] = o
                      THEN Disconnected(streams[o]) ELSE streams[o]]
    /\ cameras' = [id \in {} |-> 0]
    /\ stop_call' = [pc |-> "done", tasks |-> {}]
    /\ UNCHANGED <<processor_is_running, camera_loop, worker_loop, add_call>>
    /\ UNCHANGED <<managerVars, appVars, cameraVars, throttleVars, queueVars, analysisVars, endpointVars>>

NextProcessor ==
    \/ \E opened \in SUBSET Sources : vp_start(opened)
    \/ \E k \in AddCalls, id \in AddIds : vp_add_camera_388(k, id)
    \/ \E k \in AddCalls, opened \in BOOLEAN : vp_add_camera_395(k, opened)
    \/ \E id \in Sources \cup AddIds : vp_remove_camera(id)
    \/ \E o \in StreamObjects : vp_camera_loop_425(o, "none")
    \/ \E o \in StreamObjects : vp_camera_loop_467(o)
    \/ \E w \in Workers : vp_worker_loop(w)
    \/ vp_stop_313
    \/ vp_stop_324

\* the callers of the processor, with loops whose turns raise nothing
SpecProcessor == Init /\ [][NextProcessor]_vars

\* the loops of a started processor, with turns that raise
NextLoops ==
    \/ \E opened \in SUBSET Sources : vp_start(opened)
    \/ \E o \in StreamObjects, raised \in IterationRaises : vp_camera_loop_425(o, raised)
    \/ \E o \in StreamObjects : vp_camera_loop_467(o)
    \/ \E id \in Sources : vp_remove_camera(id)
    \/ \E w \in Workers : vp_worker_loop(w)
    \/ vp_stop_313
    \/ vp_stop_324

SpecLoops == Init /\ [][NextLoops]_vars

\* ============================================================== shutdown
\* main.py lifespan lines 41-44 after the yield, with the loops of the
\* processor that main.py started and the endpoints' clients.

\* the methods of class WebSocketManager, websocket_manager.py lines 243-342;
\* disconnect_all (lines 222-229) is a method of ConnectionManager only
WebSocketManagerMethods ==
    {"start", "stop", "_heartbeat_task", "connect", "disconnect", "send_to_client",
     "broadcast", "subscribe_to_camera", "unsubscribe_from_camera", "send_camera_update",
     "send_alert", "send_event_notification", "send_system_status", "get_stats"}

\* main.py line 43 up to the gather of stop
lifespan_shutdown_43 ==
    /\ lifespan = "serving"
    /\ lifespan' = "stop_43"
    /\ Stop313Body
    /\ UNCHANGED <<instances, event_handler, is_running, connections, subscribers,
                   event_notifications, heartbeats, events_published>>
    /\ UNCHANGED <<managerVars, cameraVars, throttleVars, queueVars, analysisVars, endpointVars>>

\* main.py line 44, once stop has returned: the attribute lookup on the
\* WebSocketManager, and the call if the class has the method
lifespan_shutdown_44 ==
    /\ lifespan = "stop_43"
    /\ stop_call.pc = "done"
    /\ IF "disconnect_all" \in WebSocketManagerMethods
       THEN /\ lifespan' = "stopped"
            /\ connections' = [connections EXCEPT ![MainInstance] = {}]
            /\ subscribers' = [subscribers EXCEPT ![MainInstance] = [s \in Sources |-> {}]]
       ELSE /\ lifespan' = "AttributeError"
            /\ UNCHANGED <<connections, subscribers>>
    /\ UNCHANGED <<instances, event_handler, is_running,
                   event_notifications, heartbeats, events_published>>
    /\ UNCHANGED <<managerVars, cameraVars, throttleVars, queueVars, analysisVars, processorVars, endpointVars>>

NextShutdown ==
    \/ lifespan_startup
    \/ \E c \in Clients : websocket_endpoint_connect(c)
    \/ \E c \in Clients : websocket_endpoint_disconnect(c)
    \/ \E o \in StreamObjects, raised \in IterationRaises : vp_camera_loop_425(o, raised)
    \/ \E o \in StreamObjects : vp_camera_loop_467(o)
    \/ \E w \in Workers : vp_worker_loop(w)
    \/ lifespan_shutdown_43
    \/ vp_stop_324
    \/ lifespan_shutdown_44

\* the event loop runs every task that can run, and the lifespan coroutine
\* once what it awaits is done; when shutdown is asked for is up to the server
SpecShutdown ==
    /\ Init /\ [][NextShutdown]_vars
    /\ \A o \in StreamObjects :
          /\ WF_vars(\E raised \in IterationRaises : vp_camera_loop_425(o, raised))
          /\ WF_vars(vp_camera_loop_467(o))
    /\ \A w \in Workers : WF_vars(vp_worker_loop(w))
    /\ WF_vars(vp_stop_324)
    /\ WF_vars(lifespan_shutdown_44)

\* ================================================================== claims
Connected == Keys(active_connections)

Quiescent == \A t \in Tasks : ~InProgress(t)

Done(t, op) == task[t].pc = "done" /\ task[t].op = op

\* C1: between calls of connect, disconnect, subscribe_to_camera and
\* unsubscribe_from_camera, client c is in camera_subscriptions[s] if and only
\* if s is in client_subscriptions[c].
Mirror ==
    \A c \in Clients, s \in Cameras : c \in Subscribers(s) <=> s \in Subscriptions(c)

C1_SubscriptionMirror == Quiescent => Mirror

\* the index is consistent and holds connected clients only
Consistent == Mirror /\ DOMAIN client_subscriptions = Connected

\* C2: camera_subscriptions never maps a camera id to an empty subscriber
\* set: the entry of a camera that loses its last subscriber is deleted.
C2_NoEmptySubscriberSet ==
    \A s \in DOMAIN camera_subscriptions : camera_subscriptions[s] # {}

\* an unsubscribe_from_camera or disconnect has removed the last subscriber of
\* a camera, and the camera has no entry
C2_Witness ==
    \E t \in Tasks :
        /\ task[t].pruned # {}
        /\ task[t].pruned \cap DOMAIN camera_subscriptions = {}

\* C3: subscribe_to_camera and unsubscribe_from_camera do not release the
\* event loop before both sides of the index are updated, and when they first
\* release it (at the acknowledgment send, or at their return) the client is in
\* subscribers(S) and S in subscriptions(client) after a subscribe, and neither
\* after an unsubscribe.
C3_BothSidesBeforeAwait ==
    [][\A t \in Tasks :
          LET r == task[t] IN
          /\ (r.pc \in {"sub_105", "sub_110", "unsub_127", "unsub_130"}
                /\ task'[t].pc # r.pc)
             => running' = t
          /\ (r.op = "subscribe_to_camera" /\ r.pc = "stc_71" /\ task'[t].pc # r.pc)
             => /\ r.camera \in DOMAIN camera_subscriptions'
                /\ r.client \in camera_subscriptions'[r.camera]
                /\ r.client \in DOMAIN client_subscriptions'
                /\ r.camera \in client_subscriptions'[r.client]
          /\ (r.op = "unsubscribe_from_camera" /\ r.pc = "stc_71" /\ task'[t].pc # r.pc)
             => /\ r.camera \in DOMAIN camera_subscriptions'
                   => r.client \notin camera_subscriptions'[r.camera]
                /\ r.client \in DOMAIN client_subscriptions'
                   => r.camera \notin client_subscriptions'[r.client]
      ]_vars

\* a subscribe_to_camera is suspended in its acknowledgment send with both
\* sides of the index updated
C3_Witness ==
    \E t \in Tasks :
        /\ running = 0
        /\ task[t].op = "subscribe_to_camera" /\ task[t].pc = "stc_73"
        /\ task[t].client \in Subscribers(task[t].camera)
        /\ task[t].camera \in Subscriptions(task[t].client)

\* C4: a send_event_notification of an event of severity other than high and
\* critical on source S that no other coroutine overlapped, in a consistent
\* index of connected clients, has delivered exactly one event_notification to every connected client subscribed to S
\* whose transport did not fail, and no message to any other connected client.
C4_LowSeverityToSubscribersOnly ==
    \A t \in Publishers :
        (/\ Done(t, "send_event_notification")
         /\ task[t].severity \notin {"high", "critical"}
         /\ ~overlapped[t] /\ Consistent)
        => \A c \in Connected \ task[t].failed :
              /\ task[t].got[c] = (IF c \in Subscribers(task[t].camera) THEN 1 ELSE 0)
              /\ task[t].prio[c] = 0

\* C5: a send_event_notification of an event of severity high or critical on
\* source S that no other coroutine overlapped, in a consistent index of
\* connected clients, has delivered an event_notification to every connected subscriber of S and a priority_event
\* to every connected client, whose transport did not fail.
C5_HighSeverityToEveryClient ==
    \A t \in Publishers :
        (/\ Done(t, "send_event_notification")
         /\ task[t].severity \in {"high", "critical"}
         /\ ~overlapped[t] /\ Consistent)
        => \A c \in Connected \ task[t].failed :
              /\ task[t].prio[c] >= 1
              /\ c \in Subscribers(task[t].camera) => task[t].got[c] >= 1

\* C6: in a consistent index of connected clients, send_camera_update(S) has
\* sent the camera_update only to clients that were in subscribers(S) when it
\* was called.
C6_UpdateOnlyToSubscribersAtCall ==
    \A t \in Publishers :
        (task[t].op = "send_camera_update" /\ Consistent)
        => \A c \in Clients : task[t].got[c] >= 1 => c \in task[t].subs0

\* C7: when a broadcast that no other coroutine overlapped returns, every
\* client that was connected, is not excluded and whose send did not fail has
\* received the message, and exactly the clients whose send failed are
\* disconnected: gone from active_connections and from every subscriber set.
C7_BroadcastFailureIsolated ==
    \A t \in Publishers :
        (Done(t, "broadcast") /\ ~overlapped[t])
        => /\ task[t].err = "none"
           /\ \A c \in task[t].conns0 \ (task[t].exclude \cup task[t].failed) :
                 task[t].got[c] >= 1
           /\ Connected = task[t].conns0 \ task[t].failed
           /\ \A c \in task[t].failed, s \in Cameras : c \notin Subscribers(s)

\* C8: when a send_event_notification that no other coroutine overlapped, in
\* a consistent index of connected clients, had a delivery failure to one subscriber of S while S has other connected
\* subscribers, it does not fail and each of those has received the
\* event_notification.
C8_EventFailureIsolated ==
    \A t \in Publishers :
        LET others == (Subscribers(task[t].camera) \cap Connected) \ task[t].failed IN
        (/\ Done(t, "send_event_notification")
         /\ ~overlapped[t] /\ Consistent
         /\ task[t].failed # {}
         /\ others # {})
        => /\ task[t].err = "none"
           /\ \A c \in others : task[t].got[c] = 1

\* C9: a broadcast, send_camera_update or send_event_notification none of
\* whose sends failed does not end with an error, whatever connect,
\* disconnect, subscribe or unsubscribe ran while it was suspended in a send.
C9_FanOutSurvivesInterleaving ==
    \A t \in Publishers :
        (task[t].pc = "done" /\ task[t].failed = {}) => task[t].err = "none"

\* C10: the first message the transport registered by connect receives is
\* connection_established, and connect has sent it (or its send has failed)
\* when connect returns.
C10_WelcomeFirst ==
    /\ \A c \in Clients : first_received[c] \in {"none", "connection_established"}
    /\ \A t \in Endpoints :
          Done(t, "connect")
          => task[t].got[task[t].client] = 1 \/ task[t].client \in task[t].failed

\* a client has received connection_established and then a broadcast message
C10_Witness ==
    \E t \in Publishers, c \in Clients :
        /\ task[t].op = "broadcast"
        /\ task[t].got[c] >= 1
        /\ first_received[c] = "connection_established"

\* ------------------------------------------- a transport that stops draining
\* lines 89-93 when the write never completes: `await
\* websocket.send_text(...)` is awaited without a timeout, so the coroutine
\* stays suspended in it and no step of this module resumes it
broadcast_89_stall(t) ==
    /\ At(t, "bc_89")
    /\ LET r == task[t] IN
       \E n \in DictIterNext(active_connections, r.it) :
          /\ n.kind = "item" /\ n.key \notin r.exclude /\ ~broken[n.key]
          /\ Step(t, [r EXCEPT !.it = n.it, !.client = n.key, !.pc = "bc_91_stalled"],
                  {}, TRUE)
    /\ UNCHANGED <<active_connections, client_subscriptions, camera_subscriptions,
                   broken, first_received>>

\* the continuation steps of task t: what the event loop runs when t is ready
Resume(t) ==
    \/ connect_29(t) \/ send_to_client_71(t) \/ send_to_client_74(t)
    \/ disconnect_48(t) \/ disconnect_63(t)
    \/ broadcast_89(t) \/ broadcast_100(t)
    \/ Finish(t)

\* connects, disconnects and broadcasts over transports that may fail or stall
NextStall ==
    \/ \E t \in Endpoints, c \in Clients : connect(t, c)
    \/ \E t \in Tasks : connect_29(t)
    \/ \E t \in Tasks : send_to_client_71(t)
    \/ \E t \in Tasks : send_to_client_74(t)
    \/ \E t \in Endpoints, c \in Clients : disconnect(t, c)
    \/ \E t \in Tasks : disconnect_48(t)
    \/ \E t \in Tasks : disconnect_63(t)
    \/ \E t \in Publishers, x \in Excludes : broadcast(t, x)
    \/ \E t \in Tasks : broadcast_89(t)
    \/ \E t \in Tasks : broadcast_89_stall(t)
    \/ \E t \in Tasks : broadcast_100(t)
    \/ \E t \in Tasks : Finish(t)

\* the event loop runs every coroutine that is ready
SpecStall == Init /\ [][NextStall]_vars /\ \A t \in Tasks : WF_vars(Resume(t))

\* C15: every broadcast eventually returns, also when the write to one client
\* never completes.
C15_BroadcastReturnsDespiteStall ==
    \A t \in Publishers : (task[t].op = "broadcast") ~> Done(t, "broadcast")

\* C11: subscribe_to_camera(C, S) and unsubscribe_from_camera(C, S) send their
\* acknowledgment (subscription_confirmed, subscription_removed) to client C
\* only: when C is connected the call sends it exactly once (the send succeeds
\* or fails), and no other client ever receives a message from the call.
C11_AckToCallerOnly ==
    [][\A t \in Endpoints :
          LET r == task[t]
              q == task'[t] IN
          q.op \in {"subscribe_to_camera", "unsubscribe_from_camera"}
          => /\ \A c \in Clients \ {q.client} : q.got[c] = 0 /\ q.prio[c] = 0
             /\ q.got[q.client] <= 1 /\ q.prio[q.client] = 0
             /\ (r.op = q.op /\ r.pc = "stc_71" /\ q.pc # "stc_71"
                   /\ r.client \in Connected)
                => (q.got[r.client] = 1 /\ first_received'[r.client] # "none"
                       /\ Message(r) \in {"subscription_confirmed", "subscription_removed"})
                   \/ r.client \in q.failed
      ]_vars

\* a subscribe_to_camera of a connected client has returned with its
\* acknowledgment delivered while another client is connected
C11_Witness ==
    \E t \in Endpoints :
        /\ Done(t, "subscribe_to_camera")
        /\ task[t].got[task[t].client] = 1
        /\ Connected \ {task[t].client} # {}

\* C14: a step of subscribe_to_camera or unsubscribe_from_camera called with a
\* client id that is not connected changes none of active_connections,
\* client_subscriptions and camera_subscriptions, and raises no error.
C14_UnknownClientNoOp ==
    [][\A t \in Endpoints :
          (/\ task[t].op \in {"subscribe_to_camera", "unsubscribe_from_camera"}
           /\ task'[t] # task[t]
           /\ task[t].client \notin Connected)
          => /\ UNCHANGED <<active_connections, client_subscriptions, camera_subscriptions>>
             /\ task'[t].err = "none"
      ]_vars

\* C12: once the application serves, a client connected through the endpoint
\* eventually receives a heartbeat unless it disconnects.
C12_HeartbeatEventually ==
    \A c \in Clients :
        (lifespan = "serving" /\ c \in connections[MainInstance])
        ~> (heartbeats[c] > 0 \/ c \notin connections[MainInstance])

\* C13: an event the pipeline publishes for source s is delivered to every
\* client that is connected through the endpoint and subscribed to s.
C13_PipelineReachesEndpointClients ==
    [][\A s \in Sources :
          events_published'[s] = events_published[s] + 1
          => \A c \in connections[MainInstance] \cap subscribers[MainInstance][s] :
                event_notifications'[c] = event_notifications[c] + 1
      ]_vars

\* ---------------------------------------------------------------- one source
\* C16: the status of a stream only changes along disconnected->connecting,
\* connecting->connected, connecting->error, connected->error,
\* connected->disconnected, error->disconnected and error->connecting.
C16_StatusEdges ==
    edges \subseteq {<<"disconnected", "connecting">>, <<"connecting", "connected">>,
                     <<"connecting", "error">>, <<"connected", "error">>,
                     <<"connected", "disconnected">>, <<"error", "disconnected">>,
                     <<"error", "connecting">>}

\* C17: the read that takes a connected stream into error emits one status
\* update for it, and nothing more is emitted while the stream stays in error.
C17_OneUpdateAtError ==
    [][/\ (status = "connected" /\ status' = "error") => error_updates' = 1
       /\ (status = "error" /\ error_count' = error_count + 1)
             => error_updates' = error_updates
      ]_vars

\* C18: a read takes a connected stream into error only when the current run
\* of consecutive failed reads exceeds the threshold.
C18_ConsecutiveFailures ==
    [][(status = "connected" /\ status' = "error") => failed_run' > ErrorThreshold]_vars

\* C19: every change of status hands a notification to the event handler that
\* reports the status entered.
C19_NotifiesStatusEntered ==
    [][status' # status => notification' = status']_vars

\* C20: queueing a frame raises nothing into the source loop: the job is
\* queued, or rejected when the queue already holds its capacity.
C20_EnqueueNeverRaises ==
    [][loop'.frame =>
          /\ loop'.raised = "none"
          /\ frame_queue' = IF frame_queue < QueueCapacity THEN frame_queue + 1
                            ELSE frame_queue
      ]_vars

\* C30: disconnecting a stream that is already disconnected changes nothing
\* and hands no status change to the event handler.
C30_DisconnectIdempotent ==
    [][status = "disconnected" => notification' # "offline"]_vars

\* ----------------------------------------------------------------- throttle
\* C21: between two calls of frame_queue.put by one source at least
\* process_interval elapses, whether or not the earlier call succeeded.
C21_OneAttemptPerInterval ==
    [][(last_attempt' # last_attempt /\ last_attempt # NoTime)
          => last_attempt' - last_attempt >= process_interval]_vars

\* -------------------------------------------------------------- frame queue
\* C22: a job accepted into the queue leaves it only by being handed to the
\* analysis by _ai_analysis_loop.
C22_AcceptedJobsAnalysed ==
    \A j \in submitted : InSeq(j, queued) \/ InSeq(j, analysed)

\* C23: after an analysis has failed, every job accepted later is still taken
\* by the analysis loop and analysed.
C23_AnalysisGoesOnAfterFailure ==
    \A j \in submitted : j.after_failure => (InSeq(j, queued) \/ InSeq(j, analysed))

\* C24: the jobs of one source are analysed in the order the source
\* submitted them.
C24_FifoPerSource ==
    \A i, k \in 1..Len(analysed) :
        (i < k /\ analysed[i].camera_id = analysed[k].camera_id)
        => analysed[i].n < analysed[k].n

C24_Witness ==
    \E i, k \in 1..Len(analysed) :
        /\ i < k
        /\ analysed[i].camera_id = analysed[k].camera_id
        /\ analysed[i].n < analysed[k].n
        /\ \E j \in discarded : j.camera_id # analysed[i].camera_id

\* --------------------------------------------------------- analysis service
\* the tasks that are registered from the start of the pass to its end and
\* match its event
Expected(tasks, pass) ==
    {tasks[k].id : k \in {m \in 1..Len(tasks) : /\ tasks[m].id \in pass.at_start
                                                /\ Matches(tasks[m], pass.event)}}

PassEnds == check.pc = "broadcast_231" /\ check'.pc = "idle"

\* C25: a monitoring_alert for task T and event E is handed to broadcast if
\* and only if T is active, E.camera_id is in T.camera_ids and E.event_type
\* is in T.event_types.
C25_AlertIffMatch ==
    [][/\ \A t \in TaskIds, e \in EventIds :
            alerts'[t, e] > alerts[t, e]
            => /\ check'.event.id = e
               /\ \E k \in 1..Len(monitoring_tasks') :
                     /\ monitoring_tasks'[k].id = t
                     /\ Matches(monitoring_tasks'[k], check'.event)
       /\ PassEnds => \A t \in Expected(monitoring_tasks', check) :
                          alerts'[t, check.event.id] > 0
      ]_vars

\* C26: every task that is registered and matching when an event is processed
\* fires exactly once for it, whatever happens to the other tasks and their
\* alerts during the pass.
C26_EachMatchingTaskFiresOnce ==
    [][PassEnds => \A t \in Expected(monitoring_tasks', check) :
                       alerts'[t, check.event.id] = 1
      ]_vars

C28_StoreBounded ==
    [][/\ Len(detected_events') <= StoreCapacity
       /\ \A i, k \in 1..Len(detected_events') :
             i < k => detected_events'[i].id < detected_events'[k].id
       /\ events_detected' = events_detected + 1
          => /\ detected_events' # <<>>
             /\ detected_events'[Len(detected_events')].id = events_detected'
             /\ SubSeq(detected_events', 1, Len(detected_events') - 1)
                = IF Len(detected_events) = StoreCapacity
                  THEN Tail(detected_events) ELSE detected_events
      ]_vars

C28_Witness ==
    /\ Len(detected_events) = StoreCapacity
    /\ detected_events[1].id > 1

\* C29: get_events_for_period returns exactly the stored events of the period
\* and, when cameras are given, of these cameras, newest first, and leaves
\* the store as it is.
C29_PeriodQuery ==
    [][period' # NoPeriod
          => LET r == period'.value
                 wanted == {k \in 1..Len(detected_events) :
                              /\ period'.start_time <= detected_events[k].timestamp
                              /\ detected_events[k].timestamp <= period'.end_time
                              /\ (period'.camera_ids # {}
                                  => detected_events[k].camera_id \in period'.camera_ids)} IN
             /\ {r[i] : i \in 1..Len(r)} = {detected_events[k] : k \in wanted}
             /\ Len(r) = Cardinality(wanted)
             /\ \A i, k \in 1..Len(r) : i < k => r[i].timestamp >= r[k].timestamp
             /\ detected_events' = detected_events
      ]_vars

C29_Witness ==
    /\ Len(period.value) = StoreCapacity
    /\ period.value[1].timestamp > period.value[Len(period.value)].timestamp
    /\ period.value[1] = detected_events[Len(detected_events)]

\* ------------------------------------------------- overlapping disconnects
\* C36: whatever connect, disconnect, subscribe_to_camera and
\* unsubscribe_from_camera calls interleave, every client id that is a key of
\* client_subscriptions or a member of a subscriber set is a key of
\* active_connections.
C36_NoSubscriptionWithoutConnection ==
    \A c \in Clients :
        (c \in DOMAIN client_subscriptions \/ \E s \in Cameras : c \in Subscribers(s))
        => c \in Connected

\* C37: a disconnect never ends with an error, also when another disconnect
\* of the same client ran while it was suspended closing the transport.
C37_OverlappingDisconnects ==
    \A t \in Tasks : task[t].err # "KeyError"

\* ------------------------------------------------------ queueing a frame
\* C34: when the loop of a source with analysis enabled has a frame, the
\* interval has elapsed and the queue is not full, the job joins the queue and
\* last_processed_time becomes the time of the submission.
C34_ElapsedFrameIsQueued ==
    [][(last_attempt' # last_attempt /\ frame_queue < QueueCapacity)
          => /\ frame_queue' = frame_queue + 1
             /\ last_processed_time' = last_attempt'
      ]_vars

\* ------------------------------------------------------------ last_triggered
\* C35: when the pass over the tasks ends, every task that was registered
\* throughout and matches the event carries the stamp of this event, also when
\* a broadcast of the pass failed; and no step changes last_triggered of a
\* task that does not match the event being processed.
C35_MatchStampsLastTriggered ==
    [][/\ PassEnds
          => \A k \in 1..Len(monitoring_tasks') :
                monitoring_tasks'[k].id \in Expected(monitoring_tasks', check)
                => monitoring_tasks'[k].last_triggered = check.event.timestamp
       /\ \A i \in 1..Len(monitoring_tasks), k \in 1..Len(monitoring_tasks') :
             (/\ monitoring_tasks[i].id = monitoring_tasks'[k].id
              /\ monitoring_tasks[i].last_triggered # monitoring_tasks'[k].last_triggered)
             => Matches(monitoring_tasks[i], check.event)
      ]_vars

\* ------------------------------------------------ reconnect by health check
\* C40: a stream that is registered in cameras and connected has a processing
\* loop that has not ended, and a stream that is not registered is not
\* connected: the health check's reconnect brings the frames back and does
\* not reconnect a stream that remove_camera took out meanwhile.
C40_ConnectedCameraHasLiveLoop ==
    /\ (in_cameras /\ status = "connected") => loop.pc # "ended"
    /\ ~in_cameras => status # "connected"

\* -------------------------------------------------------- malformed messages
\* C33: a text that is malformed or cannot be parsed is ignored: the client
\* that sent it stays connected with its subscriptions as they were.
C33_MalformedIgnored ==
    [][(received' = received + 1 /\ endpoint_raises(inbound'.data) # "none")
          => /\ inbound'.client \in connections'[MainInstance]
             /\ subscribers' = subscribers
      ]_vars

\* C38: under any interleaving of add_camera calls there is at most one
\* connected CameraStream and at most one processing loop of an active stream
\* per camera id, and a call that returned False left no connected stream
C38_OneStreamPerId ==
    /\ \A id \in Sources \cup AddIds :
          /\ Cardinality({o \in StreamObjects :
                             streams[o].id = id /\ streams[o].status = "connected"}) <= 1
          /\ Cardinality({o \in StreamObjects :
                             /\ streams[o].id = id /\ streams[o].is_active
                             /\ camera_loop[o].pc \in LivePcs}) <= 1
    /\ \A k \in AddCalls :
          (add_call[k].value = "False" /\ streams[NumSources + k].id = add_call[k].id)
              => streams[NumSources + k].status # "connected"

\* C39: once stop has completed, cameras is empty, no stream is connected or
\* active and no processing task is inside its loop, whatever add_camera or
\* remove_camera call was in progress while stop ran
C39_StoppedMeansEmpty ==
    stop_call.pc = "done"
        => /\ DOMAIN cameras = {}
           /\ \A o \in StreamObjects :
                 /\ streams[o].status # "connected"
                 /\ ~streams[o].is_active
                 /\ camera_loop[o].pc \notin {"sleep_467", "sleep_473"}
           /\ \A w \in Workers : worker_loop[w] # "running"

\* C32: an exception raised in one turn of a camera's processing loop is
\* handled inside that loop: the loop goes to the pause of line 473 and from
\* there to its next turn, and the step changes no other camera's loop, no
\* worker loop and not the processor's running flag
C32_LoopExceptionIsolated ==
    [][\A o \in StreamObjects :
          /\ camera_loop'[o].errors > camera_loop[o].errors
                => /\ camera_loop'[o].pc = "sleep_473"
                   /\ \A p \in StreamObjects \ {o} : camera_loop'[p] = camera_loop[p]
                   /\ worker_loop' = worker_loop
                   /\ processor_is_running' = processor_is_running
                   /\ UNCHANGED <<cameras, streams>>
          /\ (camera_loop[o].pc = "sleep_473" /\ camera_loop'[o].pc # "sleep_473")
                => camera_loop'[o].pc = IF processor_is_running THEN "loop_425" ELSE "ended"]_vars

\* a loop whose turn raised runs its next turn while another camera's loop,
\* the workers and the processor run
C32_Witness ==
    /\ processor_is_running
    /\ \A w \in Workers : worker_loop[w] = "running"
    /\ \E o, p \in StreamObjects :
          /\ o # p
          /\ camera_loop[o].errors > 0 /\ camera_loop[o].pc = "sleep_467"
          /\ streams[o].is_active
          /\ camera_loop[p].pc \in LivePcs /\ camera_loop[p].errors = 0

\* C31: once shutdown has begun it completes: the source loops and the
\* worker loops have finished, every client connection has been closed, and
\* the lifespan has run to its end
C31_ShutdownCompletes ==
    (lifespan = "stop_43")
        ~> /\ lifespan = "stopped"
           /\ \A o \in StreamObjects : camera_loop[o].pc \notin LivePcs
           /\ \A w \in Workers : worker_loop[w] = "ended"
           /\ connections[MainInstance] = {}
====
